---- MODULE Spec2Model ----
(***************************************************************************)
(* Message compilation, the header queries and the wire boundary of        *)
(* packages/legacy/src/message.ts.                                         *)
(*                                                                         *)
(* Addresses are small integers (a PublicKey is compared by its base58     *)
(* text only).  Account indices keep the 0-based values of the code; the   *)
(* sequences that hold the accounts are 1-based, so index i names          *)
(* element i + 1.  A JavaScript Map is a sequence of entries with unique   *)
(* keys, in insertion order.                                               *)
(***************************************************************************)
EXTENDS Integers, Sequences, FiniteSets, TLC

VARIABLES
    payerKey,                    \* CompileLegacyArgs / CompileV0Args . payerKey
    recentBlockhash,             \* ... . recentBlockhash
    instructions,                \* ... . instructions (normalized)
    addressLookupTableAccounts,  \* CompileV0Args . addressLookupTableAccounts
    message,                     \* <<>> or <<m>>: the compiled Message / MessageV0
    serialized,                  \* <<>> or <<bytes>>: message.serialize()
    restored,                    \* <<>> or <<m>>: the message decoded from the bytes
    prefix,                      \* <<>> or <<b>>: byte 0 given to deserializeMessageVersion
    detected,                    \* <<>> or <<v>>: what deserializeMessageVersion returned
    tx,                          \* <<>> or <<t>>: a Transaction object
    vtx,                         \* <<>> or <<v>>: a VersionedTransaction object
    outcome,                     \* <<>> or <<o>>: what the last call returned or threw
    curve,                       \* the residues of digests that are points on the signing curve
    found,                       \* <<>> or <<f>>: what the last findProgramAddress returned
    keypair,                     \* <<>> or <<k>>: a Keypair object
    cryptoCalls,                 \* the cryptographic primitives the last call invoked, in order
    calls                        \* the sign / partialSign calls in progress, by call id

msgVars == <<payerKey, recentBlockhash, instructions, addressLookupTableAccounts,
             message, serialized, restored, prefix, detected>>

txVars == <<tx, vtx, outcome>>

keyVars == <<curve, found, keypair, cryptoCalls>>

vars == <<msgVars, txVars, keyVars, calls>>

\* no PublicKey or Keypair operation and no signing call is in progress
KeyIdle ==
    /\ curve = {}
    /\ found = <<>>
    /\ keypair = <<>>
    /\ cryptoCalls = <<>>
    /\ calls = <<>>

(***************************************************************************)
(* Bounds and input universes                                              *)
(***************************************************************************)
MaxInstr == 2

Meta(a, s, w) == [pubkey |-> a, isSigner |-> s, isWritable |-> w]

Ix(p, ks, d) == [programId |-> p, keys |-> ks, data |-> d]

\* The instructions a caller may pass.  Addresses 2, 3 and 4 are stored in
\* lookup tables (see TableT1, TableT2); 1 is in none.
InstrChoices ==
    { Ix(4, <<Meta(1, TRUE, TRUE), Meta(2, FALSE, TRUE)>>, <<2, 0, 0, 0>>),
      Ix(4, <<Meta(2, FALSE, TRUE), Meta(3, FALSE, FALSE)>>, <<>>),
      Ix(4, <<Meta(3, FALSE, FALSE), Meta(2, FALSE, TRUE)>>, <<255>>),
      Ix(4, <<Meta(2, TRUE, FALSE)>>, <<1, 2>>),
      Ix(3, <<>>, <<5, 6, 7>>),
      Ix(1, <<Meta(2, FALSE, FALSE), Meta(4, FALSE, TRUE), Meta(3, FALSE, TRUE)>>, <<>>),
      Ix(3, <<Meta(4, FALSE, FALSE), Meta(4, FALSE, TRUE)>>, <<250, 251>>),
      Ix(2, <<Meta(3, FALSE, TRUE)>>, <<0>>),
      Ix(4, <<Meta(3, TRUE, TRUE)>>, <<>>),
      Ix(1, <<Meta(2, FALSE, FALSE)>>, <<9, 9, 9, 9, 9>>),
      Ix(2, <<Meta(1, FALSE, FALSE), Meta(4, FALSE, FALSE)>>, <<>>),
      Ix(3, <<Meta(4, TRUE, FALSE), Meta(2, FALSE, TRUE)>>, <<128>>) }

PayerChoices == {1, 2, 3}

BlockhashChoices == {77}

TableT1 == [key |-> 11, state |-> [addresses |-> <<2, 3>>]]

TableT2 == [key |-> 12, state |-> [addresses |-> <<4, 3, 4>>]]

TableChoices == { <<>>, <<TableT1>>, <<TableT1, TableT2>>, <<TableT2, TableT1>> }

RECURSIVE SeqsUpTo(_, _)
SeqsUpTo(S, n) ==
    IF n = 0 THEN { <<>> }
    ELSE LET shorter == SeqsUpTo(S, n - 1)
         IN  shorter \cup { Append(s, x) : s \in shorter, x \in S }

InstrLists == SeqsUpTo(InstrChoices, MaxInstr)

(***************************************************************************)
(* Map helpers                                                             *)
(***************************************************************************)
MapHas(m, key) == \E i \in 1..Len(m) : m[i].pubkey = key

RECURSIVE Concat(_)
Concat(ss) == IF ss = <<>> THEN <<>> ELSE Head(ss) \o Concat(Tail(ss))

\* keyIndexMap.get(key) over the final account order; -1 stands for undefined.
IndexIn(ordered, key) ==
    IF \E i \in 1..Len(ordered) : ordered[i].pubkey = key
    THEN (CHOOSE i \in 1..Len(ordered) : ordered[i].pubkey = key) - 1
    ELSE -1

(***************************************************************************)
(* Message.compile                                                         *)
(***************************************************************************)
upgradeAssign(existing, meta) ==
    [existing EXCEPT !.isSigner = meta.isSigner, !.isWritable = meta.isWritable]

\* "Upgrade permissions if needed"
upgradePermissions(existing, meta) ==
    [existing EXCEPT !.isSigner = existing.isSigner \/ meta.isSigner,
                     !.isWritable = existing.isWritable \/ meta.isWritable]

legacySetMeta(accountMap, meta) ==
    IF MapHas(accountMap, meta.pubkey)
    THEN [i \in 1..Len(accountMap) |->
            IF accountMap[i].pubkey = meta.pubkey
            THEN upgradePermissions(accountMap[i], meta)
            ELSE accountMap[i]]
    ELSE Append(accountMap, [pubkey |-> meta.pubkey, isSigner |-> meta.isSigner,
                             isWritable |-> meta.isWritable])

RECURSIVE legacyAddKeys(_, _)
legacyAddKeys(accountMap, keys) ==
    IF keys = <<>> THEN accountMap
    ELSE legacyAddKeys(legacySetMeta(accountMap, Head(keys)), Tail(keys))

legacyAddProgram(accountMap, programId) ==
    IF MapHas(accountMap, programId) THEN accountMap
    ELSE Append(accountMap, [pubkey |-> programId, isSigner |-> FALSE, isWritable |-> FALSE])

RECURSIVE legacyAccountMap(_, _)
legacyAccountMap(accountMap, ixs) ==
    IF ixs = <<>> THEN accountMap
    ELSE legacyAccountMap(
            legacyAddKeys(legacyAddProgram(accountMap, Head(ixs).programId), Head(ixs).keys),
            Tail(ixs))

feePayerEntry(payer) == [pubkey |-> payer, isSigner |-> TRUE, isWritable |-> TRUE]

IsWritableSigner(a) == a.isSigner /\ a.isWritable
IsReadonlySigner(a) == a.isSigner /\ ~a.isWritable
IsWritableNonSigner(a) == ~a.isSigner /\ a.isWritable
IsReadonlyNonSigner(a) == ~a.isSigner /\ ~a.isWritable

orderedAccountsSwapped(accounts) ==
    SelectSeq(accounts, IsWritableSigner) \o SelectSeq(accounts, IsWritableNonSigner)
        \o SelectSeq(accounts, IsReadonlySigner) \o SelectSeq(accounts, IsReadonlyNonSigner)

orderedAccounts(accounts) ==
    SelectSeq(accounts, IsWritableSigner) \o SelectSeq(accounts, IsReadonlySigner)
        \o SelectSeq(accounts, IsWritableNonSigner) \o SelectSeq(accounts, IsReadonlyNonSigner)

buildHeaderWritableOnly(accounts) ==
    [numReadonlySignedAccounts |-> Len(SelectSeq(accounts, IsReadonlySigner)),
     numReadonlyUnsignedAccounts |-> Len(SelectSeq(accounts, IsReadonlyNonSigner)),
     numRequiredSignatures |-> Len(SelectSeq(accounts, IsWritableSigner))]

buildHeader(accounts) ==
    [numReadonlySignedAccounts |-> Len(SelectSeq(accounts, IsReadonlySigner)),
     numReadonlyUnsignedAccounts |-> Len(SelectSeq(accounts, IsReadonlyNonSigner)),
     numRequiredSignatures |->
        Len(SelectSeq(accounts, IsWritableSigner)) + Len(SelectSeq(accounts, IsReadonlySigner))]

(***************************************************************************)
(* Buffer base64 text: a string is a sequence of symbols, 0..63 the digits *)
(* and 64 the padding character.                                           *)
(***************************************************************************)
Base64Pad == 64

RECURSIVE toBase64(_)
toBase64(bytes) ==
    IF Len(bytes) = 0 THEN <<>>
    ELSE IF Len(bytes) = 1
    THEN << bytes[1] \div 4, (bytes[1] % 4) * 16, Base64Pad, Base64Pad >>
    ELSE IF Len(bytes) = 2
    THEN << bytes[1] \div 4, (bytes[1] % 4) * 16 + bytes[2] \div 16,
            (bytes[2] % 16) * 4, Base64Pad >>
    ELSE << bytes[1] \div 4, (bytes[1] % 4) * 16 + bytes[2] \div 16,
            (bytes[2] % 16) * 4 + bytes[3] \div 64, bytes[3] % 64 >>
         \o toBase64(SubSeq(bytes, 4, Len(bytes)))

RECURSIVE fromBase64Digits(_)
fromBase64Digits(d) ==
    IF Len(d) < 2 THEN <<>>
    ELSE IF Len(d) = 2 THEN << d[1] * 4 + d[2] \div 16 >>
    ELSE IF Len(d) = 3
    THEN << d[1] * 4 + d[2] \div 16, (d[2] % 16) * 16 + d[3] \div 4 >>
    ELSE << d[1] * 4 + d[2] \div 16, (d[2] % 16) * 16 + d[3] \div 4,
            (d[3] % 4) * 64 + d[4] >>
         \o fromBase64Digits(SubSeq(d, 5, Len(d)))

IsBase64Digit(x) == x # Base64Pad

\* Buffer.from(text, 'base64')
fromBase64(text) == fromBase64Digits(SelectSeq(text, IsBase64Digit))

(***************************************************************************)
(* Message.compile, continued                                              *)
(***************************************************************************)
LegacyVersion == -1

legacyCompileInstruction(ordered, ix) ==
    [accounts |-> [k \in 1..Len(ix.keys) |-> IndexIn(ordered, ix.keys[k].pubkey)],
     data |-> toBase64(ix.data),
     programIdIndex |-> IndexIn(ordered, ix.programId)]

Message_compile(payer, blockhash, ixs) ==
    LET accounts == legacyAccountMap(<<feePayerEntry(payer)>>, ixs)
        ordered == orderedAccounts(accounts)
    IN  [version |-> LegacyVersion,
         header |-> buildHeader(accounts),
         accountKeys |-> [i \in 1..Len(ordered) |-> ordered[i].pubkey],
         recentBlockhash |-> blockhash,
         instructions |-> [n \in 1..Len(ixs) |-> legacyCompileInstruction(ordered, ixs[n])]]

(***************************************************************************)
(* MessageV0.compile                                                       *)
(***************************************************************************)
NoLookup == [defined |-> FALSE, tableIndex |-> 0, tableKey |-> 0]

TableHas(table, key) ==
    \E i \in 1..Len(table.state.addresses) : table.state.addresses[i] = key

FirstPosition(addresses, key) ==
    CHOOSE i \in 1..Len(addresses) :
        addresses[i] = key /\ \A j \in 1..(i - 1) : addresses[j] # key

\* lookupMap.get(key): the first table, and the first position in it, that holds key
lookupMapGet(tables, key) ==
    IF \E n \in 1..Len(tables) : TableHas(tables[n], key)
    THEN LET n == CHOOSE n \in 1..Len(tables) :
                    TableHas(tables[n], key) /\ \A j \in 1..(n - 1) : ~TableHas(tables[j], key)
         IN  [defined |-> TRUE,
              tableIndex |-> FirstPosition(tables[n].state.addresses, key) - 1,
              tableKey |-> tables[n].key]
    ELSE NoLookup

upgradeKeepLookup(existing, meta) ==
    [existing EXCEPT !.isSigner = existing.isSigner \/ meta.isSigner,
                     !.isWritable = existing.isWritable \/ meta.isWritable]

\* the "existing" branch: upgrade, and "if becoming a signer, must be static"
v0Upgrade(existing, meta) ==
    [existing EXCEPT !.isSigner = existing.isSigner \/ meta.isSigner,
                     !.isWritable = existing.isWritable \/ meta.isWritable,
                     !.fromLookup = IF meta.isSigner /\ existing.fromLookup.defined
                                    THEN NoLookup ELSE existing.fromLookup]

\* the "new entry" branch: "signers must be static; non-signers can use lookup"
v0NewEntry(tables, meta) ==
    LET lookupInfo == lookupMapGet(tables, meta.pubkey)
        canUseLookup == ~meta.isSigner /\ lookupInfo.defined
    IN  [fromLookup |-> IF canUseLookup THEN lookupInfo ELSE NoLookup,
         isSigner |-> meta.isSigner,
         isWritable |-> meta.isWritable,
         pubkey |-> meta.pubkey]

v0SetMeta(tables, accountMap, meta) ==
    IF MapHas(accountMap, meta.pubkey)
    THEN [i \in 1..Len(accountMap) |->
            IF accountMap[i].pubkey = meta.pubkey
            THEN v0Upgrade(accountMap[i], meta)
            ELSE accountMap[i]]
    ELSE Append(accountMap, v0NewEntry(tables, meta))

RECURSIVE v0AddKeys(_, _, _)
v0AddKeys(tables, accountMap, keys) ==
    IF keys = <<>> THEN accountMap
    ELSE v0AddKeys(tables, v0SetMeta(tables, accountMap, Head(keys)), Tail(keys))

\* "Program IDs must be static (non-signer, non-writable)"
v0AddProgram(accountMap, programId) ==
    IF MapHas(accountMap, programId) THEN accountMap
    ELSE Append(accountMap, [fromLookup |-> NoLookup, isSigner |-> FALSE,
                             isWritable |-> FALSE, pubkey |-> programId])

RECURSIVE v0AccountMap(_, _, _)
v0AccountMap(tables, accountMap, ixs) ==
    IF ixs = <<>> THEN accountMap
    ELSE v0AccountMap(tables,
            v0AddKeys(tables, v0AddProgram(accountMap, Head(ixs).programId), Head(ixs).keys),
            Tail(ixs))

v0FeePayerEntry(payer) ==
    [fromLookup |-> NoLookup, isSigner |-> TRUE, isWritable |-> TRUE, pubkey |-> payer]

IsStatic(a) == ~a.fromLookup.defined
IsFromLookup(a) == a.fromLookup.defined
IsWritable(a) == a.isWritable
IsReadonly(a) == ~a.isWritable

\* tableToLookup: one entry per table key, in the order the lookup accounts name them
RECURSIVE tableToLookup(_, _)
tableToLookup(groups, lookupAccounts) ==
    IF lookupAccounts = <<>> THEN groups
    ELSE LET acc == Head(lookupAccounts)
             tableKey == acc.fromLookup.tableKey
             has == \E g \in 1..Len(groups) : groups[g].tableKey = tableKey
             opened == IF has THEN groups
                       ELSE Append(groups, [tableKey |-> tableKey, accounts |-> <<>>])
             pushed == [g \in 1..Len(opened) |->
                          IF opened[g].tableKey = tableKey
                          THEN [opened[g] EXCEPT !.accounts = Append(@, acc)]
                          ELSE opened[g]]
         IN  tableToLookup(pushed, Tail(lookupAccounts))

groupOrderReadonlyFirst(data) ==
    SelectSeq(data.accounts, IsReadonly) \o SelectSeq(data.accounts, IsWritable)

\* the order in which one table's accounts receive their message indices
groupOrder(data) ==
    SelectSeq(data.accounts, IsWritable) \o SelectSeq(data.accounts, IsReadonly)

TableIndexes(accs) == [i \in 1..Len(accs) |-> accs[i].fromLookup.tableIndex]

buildLookup(data) ==
    [accountKey |-> data.tableKey,
     readonlyIndexes |-> TableIndexes(SelectSeq(data.accounts, IsReadonly)),
     writableIndexes |-> TableIndexes(SelectSeq(data.accounts, IsWritable))]

IsUsedLookup(l) == Len(l.writableIndexes) > 0 \/ Len(l.readonlyIndexes) > 0

v0KeyOrderStaticOnly(orderedStatic, groups) == orderedStatic

\* keyIndexMap as the sequence of accounts by assigned index
v0KeyOrder(orderedStatic, groups) ==
    orderedStatic \o Concat([g \in 1..Len(groups) |-> groupOrder(groups[g])])

v0CompileInstruction(ordered, ix) ==
    [accountKeyIndexes |-> [k \in 1..Len(ix.keys) |-> IndexIn(ordered, ix.keys[k].pubkey)],
     data |-> ix.data,
     programIdIndex |-> IndexIn(ordered, ix.programId)]

MessageV0_compile(payer, blockhash, ixs, tables) ==
    LET accounts == v0AccountMap(tables, <<v0FeePayerEntry(payer)>>, ixs)
        staticAccounts == SelectSeq(accounts, IsStatic)
        lookupAccounts == SelectSeq(accounts, IsFromLookup)
        orderedStatic == orderedAccounts(staticAccounts)
        groups == tableToLookup(<<>>, lookupAccounts)
        ordered == v0KeyOrder(orderedStatic, groups)
    IN  [version |-> 0,
         header |-> buildHeader(staticAccounts),
         staticAccountKeys |-> [i \in 1..Len(orderedStatic) |-> orderedStatic[i].pubkey],
         recentBlockhash |-> blockhash,
         compiledInstructions |-> [n \in 1..Len(ixs) |-> v0CompileInstruction(ordered, ixs[n])],
         addressTableLookups |->
            SelectSeq([g \in 1..Len(groups) |-> buildLookup(groups[g])], IsUsedLookup)]

(***************************************************************************)
(* Header queries                                                          *)
(***************************************************************************)
Message_isAccountSigner(m, index) == index < m.header.numRequiredSignatures

Message_isAccountWritable(m, index) ==
    LET numSigners == m.header.numRequiredSignatures
        numReadonlySigners == m.header.numReadonlySignedAccounts
        numReadonlyUnsigned == m.header.numReadonlyUnsignedAccounts
    IN  IF index < numSigners
        THEN index < numSigners - numReadonlySigners
        ELSE index < Len(m.accountKeys) - numReadonlyUnsigned

MessageV0_isAccountSigner(m, index) == index < m.header.numRequiredSignatures

RECURSIVE lookupWalk(_, _, _)
lookupWalk(lookups, lookupIndex, currentIndex) ==
    IF lookups = <<>> THEN FALSE
    ELSE LET lookup == Head(lookups)
             afterWritable == currentIndex + Len(lookup.writableIndexes)
         IN  IF lookupIndex < afterWritable THEN TRUE
             ELSE IF lookupIndex < afterWritable + Len(lookup.readonlyIndexes) THEN FALSE
             ELSE lookupWalk(Tail(lookups), lookupIndex,
                             afterWritable + Len(lookup.readonlyIndexes))

MessageV0_isAccountWritableStaticRule(m, index) ==
    LET numSigners == m.header.numRequiredSignatures
    IN  IF index < numSigners
        THEN index < numSigners - m.header.numReadonlySignedAccounts
        ELSE index < Len(m.staticAccountKeys) - m.header.numReadonlyUnsignedAccounts

MessageV0_isAccountWritable(m, index) ==
    LET numSigners == m.header.numRequiredSignatures
        numReadonlySigners == m.header.numReadonlySignedAccounts
        numReadonlyUnsigned == m.header.numReadonlyUnsignedAccounts
        numStaticKeys == Len(m.staticAccountKeys)
    IN  IF index < numSigners
        THEN index < numSigners - numReadonlySigners
        ELSE IF index < numStaticKeys
        THEN index < numStaticKeys - numReadonlyUnsigned
        ELSE lookupWalk(m.addressTableLookups, index - numStaticKeys, 0)

\* get compiledInstructions() of a legacy Message
Message_compiledInstructions(m) ==
    [n \in 1..Len(m.instructions) |->
        [accountKeyIndexes |-> m.instructions[n].accounts,
         data |-> fromBase64(m.instructions[n].data),
         programIdIndex |-> m.instructions[n].programIdIndex]]

(***************************************************************************)
(* The byte codec of a compiled message (section 6 of the specification):  *)
(* a 32-byte address or lifetime token is one element of the byte          *)
(* sequence, a compact-array length (always below 128 here) is one byte.   *)
(***************************************************************************)
VersionFlag == 128

CompactArray(elements) == <<Len(elements)>> \o Concat(elements)

EncodeInstruction(ix) ==
    <<ix.programAddressIndex>> \o <<Len(ix.accountIndices)>> \o ix.accountIndices
        \o <<Len(ix.data)>> \o ix.data

EncodeLookup(l) ==
    <<l.lookupTableAddress>> \o <<Len(l.writableIndexes)>> \o l.writableIndexes
        \o <<Len(l.readonlyIndexes)>> \o l.readonlyIndexes

EncodeCompiledMessage(cm) ==
    (IF cm.version = LegacyVersion THEN <<>> ELSE <<VersionFlag + cm.version>>)
    \o <<cm.header.numSignerAccounts, cm.header.numReadonlySignerAccounts,
         cm.header.numReadonlyNonSignerAccounts>>
    \o <<Len(cm.staticAccounts)>> \o cm.staticAccounts
    \o <<cm.lifetimeToken>>
    \o CompactArray([n \in 1..Len(cm.instructions) |-> EncodeInstruction(cm.instructions[n])])
    \o (IF cm.version = LegacyVersion THEN <<>>
        ELSE CompactArray([n \in 1..Len(cm.addressTableLookups) |->
                              EncodeLookup(cm.addressTableLookups[n])]))

Drop(bytes, n) == SubSeq(bytes, n + 1, Len(bytes))

\* one compiled instruction at the head of bytes: [value, rest]
DecodeInstruction(bytes) ==
    LET nAcc == bytes[2]
        afterAcc == Drop(bytes, 2 + nAcc)
        nData == afterAcc[1]
    IN  [value |-> [programAddressIndex |-> bytes[1],
                    accountIndices |-> SubSeq(bytes, 3, 2 + nAcc),
                    data |-> SubSeq(afterAcc, 2, 1 + nData)],
         rest |-> Drop(afterAcc, 1 + nData)]

RECURSIVE DecodeInstructions(_, _, _)
DecodeInstructions(count, bytes, acc) ==
    IF count = 0 THEN [value |-> acc, rest |-> bytes]
    ELSE LET one == DecodeInstruction(bytes)
         IN  DecodeInstructions(count - 1, one.rest, Append(acc, one.value))

DecodeLookup(bytes) ==
    LET nW == bytes[2]
        afterW == Drop(bytes, 2 + nW)
        nR == afterW[1]
    IN  [value |-> [lookupTableAddress |-> bytes[1],
                    writableIndexes |-> SubSeq(bytes, 3, 2 + nW),
                    readonlyIndexes |-> SubSeq(afterW, 2, 1 + nR)],
         rest |-> Drop(afterW, 1 + nR)]

RECURSIVE DecodeLookups(_, _, _)
DecodeLookups(count, bytes, acc) ==
    IF count = 0 THEN [value |-> acc, rest |-> bytes]
    ELSE LET one == DecodeLookup(bytes)
         IN  DecodeLookups(count - 1, one.rest, Append(acc, one.value))

DecodeCompiledMessage(bytes) ==
    LET versioned == bytes[1] >= VersionFlag
        body == IF versioned THEN Tail(bytes) ELSE bytes
        nStatic == body[4]
        afterStatic == Drop(body, 4 + nStatic)
        ixs == DecodeInstructions(afterStatic[2], Drop(afterStatic, 2), <<>>)
        lookups == IF versioned
                   THEN DecodeLookups(ixs.rest[1], Tail(ixs.rest), <<>>).value
                   ELSE <<>>
    IN  [version |-> IF versioned THEN bytes[1] - VersionFlag ELSE LegacyVersion,
         header |-> [numSignerAccounts |-> body[1],
                     numReadonlySignerAccounts |-> body[2],
                     numReadonlyNonSignerAccounts |-> body[3]],
         staticAccounts |-> SubSeq(body, 5, 4 + nStatic),
         lifetimeToken |-> afterStatic[1],
         instructions |-> ixs.value,
         addressTableLookups |-> lookups]

(***************************************************************************)
(* serialize / from / deserialize                                          *)
(***************************************************************************)
toKitHeader(header) ==
    [numReadonlyNonSignerAccounts |-> header.numReadonlyUnsignedAccounts,
     numReadonlySignerAccounts |-> header.numReadonlySignedAccounts,
     numSignerAccounts |-> header.numRequiredSignatures]

fromKitHeaderCrossed(kitHeader) ==
    [numReadonlySignedAccounts |-> kitHeader.numReadonlyNonSignerAccounts,
     numReadonlyUnsignedAccounts |-> kitHeader.numReadonlySignerAccounts,
     numRequiredSignatures |-> kitHeader.numSignerAccounts]

fromKitHeader(kitHeader) ==
    [numReadonlySignedAccounts |-> kitHeader.numReadonlySignerAccounts,
     numReadonlyUnsignedAccounts |-> kitHeader.numReadonlyNonSignerAccounts,
     numRequiredSignatures |-> kitHeader.numSignerAccounts]

Message_serialize(m) ==
    EncodeCompiledMessage(
        [header |-> toKitHeader(m.header),
         instructions |-> [n \in 1..Len(m.instructions) |->
            [accountIndices |-> m.instructions[n].accounts,
             data |-> fromBase64(m.instructions[n].data),
             programAddressIndex |-> m.instructions[n].programIdIndex]],
         lifetimeToken |-> m.recentBlockhash,
         staticAccounts |-> m.accountKeys,
         version |-> LegacyVersion])

Message_from(bytes) ==
    LET decoded == DecodeCompiledMessage(bytes)
    IN  [version |-> LegacyVersion,
         header |-> fromKitHeader(decoded.header),
         accountKeys |-> decoded.staticAccounts,
         recentBlockhash |-> decoded.lifetimeToken,
         instructions |-> [n \in 1..Len(decoded.instructions) |->
            [accounts |-> decoded.instructions[n].accountIndices,
             data |-> toBase64(decoded.instructions[n].data),
             programIdIndex |-> decoded.instructions[n].programAddressIndex]]]

MessageV0_serialize(m) ==
    EncodeCompiledMessage(
        [addressTableLookups |-> [n \in 1..Len(m.addressTableLookups) |->
            [lookupTableAddress |-> m.addressTableLookups[n].accountKey,
             readonlyIndexes |-> m.addressTableLookups[n].readonlyIndexes,
             writableIndexes |-> m.addressTableLookups[n].writableIndexes]],
         header |-> toKitHeader(m.header),
         instructions |-> [n \in 1..Len(m.compiledInstructions) |->
            [accountIndices |-> m.compiledInstructions[n].accountKeyIndexes,
             data |-> m.compiledInstructions[n].data,
             programAddressIndex |-> m.compiledInstructions[n].programIdIndex]],
         lifetimeToken |-> m.recentBlockhash,
         staticAccounts |-> m.staticAccountKeys,
         version |-> 0])

\* throws "Expected versioned message but got legacy" when this is FALSE
MessageV0_deserializeAccepts(bytes) == DecodeCompiledMessage(bytes).version # LegacyVersion

MessageV0_deserialize(bytes) ==
    LET decoded == DecodeCompiledMessage(bytes)
    IN  [version |-> 0,
         header |-> fromKitHeader(decoded.header),
         staticAccountKeys |-> decoded.staticAccounts,
         recentBlockhash |-> decoded.lifetimeToken,
         compiledInstructions |-> [n \in 1..Len(decoded.instructions) |->
            [accountKeyIndexes |-> decoded.instructions[n].accountIndices,
             data |-> decoded.instructions[n].data,
             programIdIndex |-> decoded.instructions[n].programAddressIndex]],
         addressTableLookups |-> [n \in 1..Len(decoded.addressTableLookups) |->
            [accountKey |-> decoded.addressTableLookups[n].lookupTableAddress,
             readonlyIndexes |-> decoded.addressTableLookups[n].readonlyIndexes,
             writableIndexes |-> decoded.addressTableLookups[n].writableIndexes]]]

deserializeMessageVersion(firstByte) ==
    LET maskedPrefix == firstByte % 128
    IN  IF firstByte # maskedPrefix /\ maskedPrefix <= 0 THEN maskedPrefix ELSE LegacyVersion

VersionedMessage_deserialize(bytes) ==
    IF deserializeMessageVersion(bytes[1]) = LegacyVersion
    THEN Message_from(bytes)
    ELSE MessageV0_deserialize(bytes)

(***************************************************************************)
(* Specification: a caller compiles a message from its arguments.          *)
(***************************************************************************)
Init ==
    /\ payerKey \in PayerChoices
    /\ recentBlockhash \in BlockhashChoices
    /\ instructions \in InstrLists
    /\ addressLookupTableAccounts \in TableChoices
    /\ message = <<>>
    /\ serialized = <<>>
    /\ restored = <<>>
    /\ prefix = <<>>
    /\ detected = <<>>
    /\ tx = <<>> /\ vtx = <<>> /\ outcome = <<>>
    /\ KeyIdle

args == <<payerKey, recentBlockhash, instructions, addressLookupTableAccounts>>

CompileLegacy ==
    /\ message = <<>>
    /\ message' = <<Message_compile(payerKey, recentBlockhash, instructions)>>
    /\ UNCHANGED <<keyVars, calls, txVars, args, serialized, restored, prefix, detected>>

CompileV0 ==
    /\ message = <<>>
    /\ message' = <<MessageV0_compile(payerKey, recentBlockhash, instructions,
                                      addressLookupTableAccounts)>>
    /\ UNCHANGED <<keyVars, calls, txVars, args, serialized, restored, prefix, detected>>

SerializeLegacy ==
    /\ message # <<>> /\ serialized = <<>>
    /\ message[1].version = LegacyVersion
    /\ serialized' = <<Message_serialize(message[1])>>
    /\ UNCHANGED <<keyVars, calls, txVars, args, message, restored, prefix, detected>>

SerializeV0 ==
    /\ message # <<>> /\ serialized = <<>>
    /\ message[1].version = 0
    /\ serialized' = <<MessageV0_serialize(message[1])>>
    /\ UNCHANGED <<keyVars, calls, txVars, args, message, restored, prefix, detected>>

MessageFrom ==
    /\ serialized # <<>> /\ restored = <<>>
    /\ restored' = <<[by |-> "Message.from", value |-> Message_from(serialized[1])]>>
    /\ UNCHANGED <<keyVars, calls, txVars, args, message, serialized, prefix, detected>>

MessageV0Deserialize ==
    /\ serialized # <<>> /\ restored = <<>>
    /\ MessageV0_deserializeAccepts(serialized[1])
    /\ restored' = <<[by |-> "MessageV0.deserialize",
                      value |-> MessageV0_deserialize(serialized[1])]>>
    /\ UNCHANGED <<keyVars, calls, txVars, args, message, serialized, prefix, detected>>

VersionedMessageDeserialize ==
    /\ serialized # <<>> /\ restored = <<>>
    /\ prefix' = <<serialized[1][1]>>
    /\ detected' = <<deserializeMessageVersion(serialized[1][1])>>
    /\ restored' = <<[by |-> "VersionedMessage.deserialize",
                      value |-> VersionedMessage_deserialize(serialized[1])]>>
    /\ UNCHANGED <<keyVars, calls, txVars, args, message, serialized>>

Next ==
    \/ CompileLegacy
    \/ CompileV0

Spec == Init /\ [][Next]_vars

(***************************************************************************)
(* Specification of the wire boundary: any message a compiler returns is   *)
(* serialized and decoded again.                                           *)
(***************************************************************************)
InitWire ==
    /\ payerKey \in PayerChoices
    /\ recentBlockhash \in BlockhashChoices
    /\ instructions \in InstrLists
    /\ addressLookupTableAccounts \in TableChoices
    /\ message \in { <<Message_compile(payerKey, recentBlockhash, instructions)>>,
                     <<MessageV0_compile(payerKey, recentBlockhash, instructions,
                                         addressLookupTableAccounts)>> }
    /\ serialized = <<>>
    /\ restored = <<>>
    /\ prefix = <<>>
    /\ detected = <<>>
    /\ tx = <<>> /\ vtx = <<>> /\ outcome = <<>>
    /\ KeyIdle

NextWire ==
    \/ SerializeLegacy
    \/ SerializeV0
    \/ MessageFrom
    \/ MessageV0Deserialize
    \/ VersionedMessageDeserialize

SpecWire == InitWire /\ [][NextWire]_vars

(***************************************************************************)
(* Specification of version detection alone: any byte may lead a buffer.   *)
(***************************************************************************)
InitVersion ==
    /\ payerKey = 1
    /\ recentBlockhash = 77
    /\ instructions = <<>>
    /\ addressLookupTableAccounts = <<>>
    /\ message = <<>>
    /\ serialized = <<>>
    /\ restored = <<>>
    /\ prefix = <<>>
    /\ detected = <<>>
    /\ tx = <<>> /\ vtx = <<>> /\ outcome = <<>>
    /\ KeyIdle

DeserializeMessageVersion ==
    \E b \in 0..255 :
        /\ prefix' = <<b>>
        /\ detected' = <<deserializeMessageVersion(b)>>
        /\ UNCHANGED <<keyVars, calls, txVars, args, message, serialized, restored>>

NextVersion == DeserializeMessageVersion

SpecVersion == InitVersion /\ [][NextVersion]_vars

(***************************************************************************)
(* What the arguments say, independently of any compiler: every            *)
(* observation of an address, in the order the instructions name them.     *)
(***************************************************************************)
ObservationsOfIx(ix) ==
    <<[pubkey |-> ix.programId, isSigner |-> FALSE, isWritable |-> FALSE, asProgram |-> TRUE]>>
    \o [k \in 1..Len(ix.keys) |->
          [pubkey |-> ix.keys[k].pubkey, isSigner |-> ix.keys[k].isSigner,
           isWritable |-> ix.keys[k].isWritable, asProgram |-> FALSE]]

ObservationsOf(payer, ixs) ==
    <<[pubkey |-> payer, isSigner |-> TRUE, isWritable |-> TRUE, asProgram |-> FALSE]>>
    \o Concat([n \in 1..Len(ixs) |-> ObservationsOfIx(ixs[n])])

Observations == ObservationsOf(payerKey, instructions)

Range(s) == { s[i] : i \in 1..Len(s) }

ObservedAddresses ==
    {payerKey}
    \cup { instructions[n].programId : n \in 1..Len(instructions) }
    \cup UNION { { instructions[n].keys[k].pubkey : k \in 1..Len(instructions[n].keys) } :
                  n \in 1..Len(instructions) }

\* the OR of the signer flags of every observation of a: the fee payer seed
\* (signer, writable), the program seeds (neither) and the account metas
FinalSigner(a) ==
    \/ a = payerKey
    \/ \E n \in 1..Len(instructions) : \E k \in 1..Len(instructions[n].keys) :
          instructions[n].keys[k].pubkey = a /\ instructions[n].keys[k].isSigner

FinalWritable(a) ==
    \/ a = payerKey
    \/ \E n \in 1..Len(instructions) : \E k \in 1..Len(instructions[n].keys) :
          instructions[n].keys[k].pubkey = a /\ instructions[n].keys[k].isWritable

FirstSeen(a) ==
    LET obs == Observations
    IN  CHOOSE i \in 1..Len(obs) : obs[i].pubkey = a /\ \A j \in 1..(i - 1) : obs[j].pubkey # a

\* 0 writable signer, 1 readonly signer, 2 writable non-signer, 3 readonly non-signer
Bucket(a) ==
    IF FinalSigner(a) THEN (IF FinalWritable(a) THEN 0 ELSE 1)
    ELSE (IF FinalWritable(a) THEN 2 ELSE 3)

Compiled == message # <<>>
CompiledLegacy == message # <<>> /\ message[1].version = LegacyVersion
CompiledV0 == message # <<>> /\ message[1].version = 0

StaticKeys == IF message[1].version = LegacyVersion
              THEN message[1].accountKeys ELSE message[1].staticAccountKeys

Lookups == IF message[1].version = LegacyVersion THEN <<>> ELSE message[1].addressTableLookups

CompiledInstructions ==
    IF message[1].version = LegacyVersion
    THEN Message_compiledInstructions(message[1])
    ELSE message[1].compiledInstructions

InSomeTable(a) ==
    \E n \in 1..Len(addressLookupTableAccounts) : TableHas(addressLookupTableAccounts[n], a)

\* the stored address list of the supplied table with this key
TableAddresses(key) ==
    LET n == CHOOSE n \in 1..Len(addressLookupTableAccounts) :
                addressLookupTableAccounts[n].key = key
    IN  addressLookupTableAccounts[n].state.addresses

WritableOf(l) ==
    [i \in 1..Len(l.writableIndexes) |-> TableAddresses(l.accountKey)[l.writableIndexes[i] + 1]]

ReadonlyOf(l) ==
    [i \in 1..Len(l.readonlyIndexes) |-> TableAddresses(l.accountKey)[l.readonlyIndexes[i] + 1]]

\* the addresses the lookups resolve to: per lookup, writable then readonly
LookupAddresses ==
    Concat([n \in 1..Len(Lookups) |-> WritableOf(Lookups[n]) \o ReadonlyOf(Lookups[n])])

NumAccounts == Len(StaticKeys) + Len(LookupAddresses)

\* the address an account index stands for; 0 when the index names none
ResolveIndex(i) ==
    IF i >= 0 /\ i < Len(StaticKeys) THEN StaticKeys[i + 1]
    ELSE IF i >= Len(StaticKeys) /\ i < NumAccounts
    THEN LookupAddresses[i - Len(StaticKeys) + 1]
    ELSE 0

IsAccountSigner(i) ==
    IF message[1].version = LegacyVersion
    THEN Message_isAccountSigner(message[1], i)
    ELSE MessageV0_isAccountSigner(message[1], i)

IsAccountWritable(i) ==
    IF message[1].version = LegacyVersion
    THEN Message_isAccountWritable(message[1], i)
    ELSE MessageV0_isAccountWritable(message[1], i)

StaticBuckets == [i \in 1..Len(StaticKeys) |-> Bucket(StaticKeys[i])]

(***************************************************************************)
(* C1: the static account list of every compiled message (legacy and V0)   *)
(* lists each static address once, and no address of a later bucket        *)
(* (writable signers, readonly signers, writable non-signers, readonly     *)
(* non-signers, by final merged role) precedes one of an earlier bucket.   *)
(***************************************************************************)
C1_StaticBucketOrder ==
    Compiled =>
        LET keys == StaticKeys
            buckets == StaticBuckets
        IN  \A i, j \in 1..Len(keys) :
                i < j => keys[i] # keys[j] /\ buckets[i] <= buckets[j]

C1_Witness ==
    /\ Compiled
    /\ Range(StaticBuckets) = 0..3
    /\ \E a, b \in ObservedAddresses :
          FirstSeen(a) < FirstSeen(b) /\ Bucket(a) > Bucket(b) /\ b # payerKey

StaticInBuckets(bs) ==
    LET buckets == StaticBuckets IN { i \in 1..Len(buckets) : buckets[i] \in bs }

(***************************************************************************)
(* C2: in every compiled message static index 0 is the fee payer, a        *)
(* writable signer, and the three header counts are the sizes of the       *)
(* signer, readonly-signer and readonly-non-signer buckets of the static   *)
(* list alone; looked-up accounts are not counted.                         *)
(***************************************************************************)
C2_HeaderCounts ==
    Compiled =>
        /\ StaticKeys[1] = payerKey
        /\ IsAccountSigner(0) /\ IsAccountWritable(0)
        /\ message[1].header.numRequiredSignatures = Cardinality(StaticInBuckets({0, 1}))
        /\ message[1].header.numReadonlySignedAccounts = Cardinality(StaticInBuckets({1}))
        /\ message[1].header.numReadonlyUnsignedAccounts = Cardinality(StaticInBuckets({3}))

C2_Witness ==
    /\ CompiledV0
    /\ \E i \in 1..Len(LookupAddresses) : ~FinalWritable(LookupAddresses[i])
    /\ message[1].header.numReadonlySignedAccounts > 0
    /\ message[1].header.numReadonlyUnsignedAccounts > 0

(***************************************************************************)
(* C3: in a message compiled by MessageV0.compile no address whose final   *)
(* merged role is signer is resolved through an address table lookup; it   *)
(* is a static account, whatever the order of its observations.            *)
(***************************************************************************)
C3_NoSignerInLookup ==
    CompiledV0 =>
        /\ \A i \in 1..Len(LookupAddresses) : ~FinalSigner(LookupAddresses[i])
        /\ \A a \in ObservedAddresses : FinalSigner(a) => a \in Range(StaticKeys)

\* an address first seen as a non-signer found in a table, later seen as a signer,
\* and the only lookup candidate
C3_Witness ==
    /\ CompiledV0
    /\ Lookups = <<>>
    /\ \E a \in ObservedAddresses :
          /\ InSomeTable(a) /\ FinalSigner(a)
          /\ ~Observations[FirstSeen(a)].isSigner /\ ~Observations[FirstSeen(a)].asProgram
          /\ \A b \in ObservedAddresses \ {a} : ~InSomeTable(b)

FirstTableWith(a) ==
    addressLookupTableAccounts[
        CHOOSE n \in 1..Len(addressLookupTableAccounts) :
            /\ TableHas(addressLookupTableAccounts[n], a)
            /\ \A j \in 1..(n - 1) : ~TableHas(addressLookupTableAccounts[j], a)]

LookedUpThrough(a, key) ==
    \E n \in 1..Len(Lookups) :
        Lookups[n].accountKey = key /\ a \in Range(WritableOf(Lookups[n]) \o ReadonlyOf(Lookups[n]))

(***************************************************************************)
(* C4: MessageV0.compile resolves an address through a lookup table if     *)
(* and only if its final merged role is non-signer and some supplied       *)
(* table holds it, and then through the first such table in the caller's   *)
(* order; this holds for addresses used as programs too.                   *)
(***************************************************************************)
C4_LookupIffNonSignerInTable ==
    CompiledV0 =>
        \A a \in ObservedAddresses :
            /\ (a \in Range(LookupAddresses)) <=> (~FinalSigner(a) /\ InSomeTable(a))
            /\ (a \in Range(LookupAddresses)) <=> (a \notin Range(StaticKeys))
            /\ a \in Range(LookupAddresses) => LookedUpThrough(a, FirstTableWith(a).key)

MinFirstSeen(addrs) ==
    CHOOSE f \in { FirstSeen(a) : a \in Range(addrs) } :
        \A a \in Range(addrs) : f <= FirstSeen(a)

PositionIn(s, x) == CHOOSE p \in 1..Len(s) : s[p] = x

(***************************************************************************)
(* C5: the lookups of a V0 message are one per table, in the order in      *)
(* which the tables are first named by a looked-up account; in each, the   *)
(* writable list holds the writable accounts and the readonly list the     *)
(* readonly ones; and the account at position p (from 1) of the sequence   *)
(* "per lookup, writable then readonly" has message index N + p - 1,       *)
(* N the number of static accounts.                                        *)
(***************************************************************************)
C5_LookupGrouping ==
    CompiledV0 =>
        /\ \A i, j \in 1..Len(Lookups) :
              i < j =>
                /\ Lookups[i].accountKey # Lookups[j].accountKey
                /\ MinFirstSeen(WritableOf(Lookups[i]) \o ReadonlyOf(Lookups[i]))
                      < MinFirstSeen(WritableOf(Lookups[j]) \o ReadonlyOf(Lookups[j]))
        /\ \A n \in 1..Len(Lookups) :
              /\ Len(Lookups[n].writableIndexes) + Len(Lookups[n].readonlyIndexes) > 0
              /\ \A a \in Range(WritableOf(Lookups[n])) : FinalWritable(a)
              /\ \A a \in Range(ReadonlyOf(Lookups[n])) : ~FinalWritable(a)
        /\ \A p, q \in 1..Len(LookupAddresses) :
              p # q => LookupAddresses[p] # LookupAddresses[q]
        /\ \A n \in 1..Len(instructions) :
              /\ instructions[n].programId \in Range(LookupAddresses) =>
                    CompiledInstructions[n].programIdIndex
                        = Len(StaticKeys) + PositionIn(LookupAddresses, instructions[n].programId) - 1
              /\ \A k \in 1..Len(instructions[n].keys) :
                    instructions[n].keys[k].pubkey \in Range(LookupAddresses) =>
                        CompiledInstructions[n].accountKeyIndexes[k]
                            = Len(StaticKeys)
                              + PositionIn(LookupAddresses, instructions[n].keys[k].pubkey) - 1

\* two tables, named alternately, and a table whose readonly account was seen first
C5_Witness ==
    /\ CompiledV0
    /\ Len(Lookups) = 2
    /\ \E a, b, c \in Range(LookupAddresses) :
          /\ FirstSeen(a) < FirstSeen(b) /\ FirstSeen(b) < FirstSeen(c)
          /\ \E n \in 1..2 :
                /\ a \in Range(ReadonlyOf(Lookups[n]))
                /\ c \in Range(WritableOf(Lookups[n]))
                /\ b \notin Range(WritableOf(Lookups[n]) \o ReadonlyOf(Lookups[n]))

(***************************************************************************)
(* C6: the compiled instructions are the source instructions in order,     *)
(* with the same data, and every program index and account index is in     *)
(* range and resolves (static list below N, lookups from N on) to the      *)
(* address the source instruction names at that position.                  *)
(***************************************************************************)
C6_IndicesResolve ==
    Compiled =>
        /\ Len(CompiledInstructions) = Len(instructions)
        /\ \A n \in 1..Len(instructions) :
              /\ CompiledInstructions[n].data = instructions[n].data
              /\ CompiledInstructions[n].programIdIndex \in 0..(NumAccounts - 1)
              /\ ResolveIndex(CompiledInstructions[n].programIdIndex) = instructions[n].programId
              /\ Len(CompiledInstructions[n].accountKeyIndexes) = Len(instructions[n].keys)
              /\ \A k \in 1..Len(instructions[n].keys) :
                    /\ CompiledInstructions[n].accountKeyIndexes[k] \in 0..(NumAccounts - 1)
                    /\ ResolveIndex(CompiledInstructions[n].accountKeyIndexes[k])
                          = instructions[n].keys[k].pubkey

C6_Witness ==
    /\ CompiledV0
    /\ Len(Lookups) = 2
    /\ \E n \in 1..Len(instructions) :
          /\ instructions[n].data # <<>>
          /\ \E k \in 1..Len(instructions[n].keys) :
                CompiledInstructions[n].accountKeyIndexes[k] > Len(StaticKeys)

(***************************************************************************)
(* C7: for every account index of a compiled message, isAccountSigner and  *)
(* isAccountWritable return the final merged signer and writable flags of  *)
(* the address the index stands for.                                       *)
(***************************************************************************)
C7_QueriesMatchRoles ==
    Compiled =>
        \A i \in 0..(NumAccounts - 1) :
            /\ IsAccountSigner(i) = FinalSigner(ResolveIndex(i))
            /\ IsAccountWritable(i) = FinalWritable(ResolveIndex(i))

C7_Witness ==
    /\ CompiledV0
    /\ \E i, j \in Len(StaticKeys)..(NumAccounts - 1) :
          /\ i < j
          /\ ~IsAccountWritable(i) /\ IsAccountWritable(j)
    /\ \E i \in 0..(Len(StaticKeys) - 1) : IsAccountSigner(i) /\ ~IsAccountWritable(i)

(***************************************************************************)
(* C8: decoding the bytes of a compiled message gives the message back,    *)
(* field for field: a legacy message through Message.from, a V0 message    *)
(* through MessageV0.deserialize, and either through                       *)
(* VersionedMessage.deserialize.                                           *)
(***************************************************************************)
C8_RoundTrip ==
    restored # <<>> =>
        \/ restored[1].by = "Message.from" /\ message[1].version # LegacyVersion
        \/ restored[1].value = message[1]

C8_Witness ==
    /\ restored # <<>>
    /\ restored[1].by = "VersionedMessage.deserialize"
    /\ CompiledV0
    /\ Len(Lookups) = 2
    /\ \E n \in 1..Len(instructions) : Len(instructions[n].data) > 1
    /\ message[1].header.numReadonlySignedAccounts
          # message[1].header.numReadonlyUnsignedAccounts

(***************************************************************************)
(* C9: for every value 0..255 of byte 0, deserializeMessageVersion         *)
(* returns the version number in bits 0-6 when bit 7 is set and 'legacy'   *)
(* when bit 7 is clear.                                                    *)
(***************************************************************************)
C9_VersionFromHighBit ==
    detected # <<>> =>
        IF prefix[1] >= 128
        THEN detected[1] = prefix[1] - 128
        ELSE detected[1] = LegacyVersion

RolesOf(accountMap) ==
    { [pubkey |-> accountMap[i].pubkey, isSigner |-> accountMap[i].isSigner,
       isWritable |-> accountMap[i].isWritable] : i \in 1..Len(accountMap) }

\* the roles the compiler that produced the message holds after these instructions
CompilerRoles(ixs) ==
    IF message[1].version = LegacyVersion
    THEN RolesOf(legacyAccountMap(<<feePayerEntry(payerKey)>>, ixs))
    ELSE RolesOf(v0AccountMap(addressLookupTableAccounts, <<v0FeePayerEntry(payerKey)>>, ixs))

PermutationsOf(s) ==
    { [i \in 1..Len(s) |-> s[f[i]]] :
        f \in { g \in [1..Len(s) -> 1..Len(s)] :
                  \A x, y \in 1..Len(s) : x # y => g[x] # g[y] } }

RECURSIVE KeyReorderings(_)
KeyReorderings(ixs) ==
    IF ixs = <<>> THEN { <<>> }
    ELSE { <<[Head(ixs) EXCEPT !.keys = ks]>> \o rest :
              ks \in PermutationsOf(Head(ixs).keys), rest \in KeyReorderings(Tail(ixs)) }

Reorderings(ixs) == UNION { KeyReorderings(p) : p \in PermutationsOf(ixs) }

\* the instruction list cut after the first j metas of its n-th instruction
PrefixOf(ixs, n, j) ==
    SubSeq(ixs, 1, n - 1) \o <<[ixs[n] EXCEPT !.keys = SubSeq(ixs[n].keys, 1, j)]>>

PrefixCuts(ixs) == UNION { { <<n, j>> : j \in 0..Len(ixs[n].keys) } : n \in 1..Len(ixs) }

CutBefore(c, d) == c[1] < d[1] \/ (c[1] = d[1] /\ c[2] <= d[2])

(***************************************************************************)
(* C10: in both compilers the final role of every address is the OR of     *)
(* all its observations (fee payer seed, program seeds, account metas); a  *)
(* flag that is true after some prefix of the observations is true after   *)
(* every longer prefix; and the final roles are the same for every         *)
(* reordering of the instructions and of the metas inside them.            *)
(***************************************************************************)
C10_RoleMergeIsOr ==
    Compiled =>
        /\ CompilerRoles(instructions)
              = { [pubkey |-> a, isSigner |-> FinalSigner(a), isWritable |-> FinalWritable(a)] :
                    a \in ObservedAddresses }
        /\ \A r \in Reorderings(instructions) :
              CompilerRoles(r) = CompilerRoles(instructions)
        /\ \A c, d \in PrefixCuts(instructions) :
              CutBefore(c, d) =>
                 \A e \in CompilerRoles(PrefixOf(instructions, c[1], c[2])) :
                    \E f \in CompilerRoles(PrefixOf(instructions, d[1], d[2])) :
                       /\ f.pubkey = e.pubkey
                       /\ e.isSigner => f.isSigner
                       /\ e.isWritable => f.isWritable

\* an address whose true flag is followed by an observation without it
C10_Witness ==
    /\ Compiled
    /\ Len(instructions) = 2
    /\ \E i, j \in 1..Len(Observations) :
          /\ i < j /\ Observations[i].pubkey = Observations[j].pubkey
          /\ ~Observations[j].asProgram
          /\ Observations[i].isWritable /\ ~Observations[j].isWritable
          /\ Observations[i].pubkey # payerKey

(***************************************************************************)
(* Transaction (legacy): signature slots over a message that is compiled   *)
(* afresh from the object's fields on every call.                          *)
(*                                                                         *)
(* A signature is the pair of the key that made it and the bytes it was    *)
(* made over; it verifies for an address and a message exactly when both   *)
(* match.  A keypair is named by its address.  ZeroSignature stands for 64 *)
(* zero bytes and JunkSignature for 64 bytes nobody signed.                *)
(***************************************************************************)
signBytes(privateKey, messageBytes) == [by |-> privateKey, over |-> messageBytes]

verifySignature(publicKey, signature, messageBytes) ==
    signature.by = publicKey /\ signature.over = messageBytes

ZeroSignature == [by |-> 0, over |-> <<>>]

JunkSignature == [by |-> 0, over |-> <<1>>]

\* Array.prototype.findIndex over the slots: 0-based index, -1 when absent
findIndex(signatures, pubkey) ==
    IF \E i \in 1..Len(signatures) : signatures[i].publicKey = pubkey
    THEN (CHOOSE i \in 1..Len(signatures) :
              /\ signatures[i].publicKey = pubkey
              /\ \A j \in 1..(i - 1) : signatures[j].publicKey # pubkey) - 1
    ELSE -1

Transaction_feePayerFromSlots(t) ==
    IF t.signatures # <<>> THEN <<t.signatures[1].publicKey>>
    ELSE t.feePayer

\* the payer compileMessage uses: this.feePayer ?? this.signatures[0]?.publicKey
Transaction_feePayer(t) ==
    IF t.feePayer # <<>> THEN t.feePayer
    ELSE IF t.signatures # <<>> THEN <<t.signatures[1].publicKey>>
    ELSE <<>>

Transaction_compileError(t) ==
    IF t.recentBlockhash = <<>> THEN "Transaction recentBlockhash required"
    ELSE IF Transaction_feePayer(t) = <<>> THEN "Transaction fee payer required"
    ELSE "none"

Transaction_compileMessage(t) ==
    Message_compile(Transaction_feePayer(t)[1], t.recentBlockhash[1], t.instructions)

Transaction_serializeMessage(t) == Message_serialize(Transaction_compileMessage(t))

Transaction_add(t, items) == [t EXCEPT !.instructions = @ \o items]

\* the slots partialSign starts from: created from the message only when there are none
initSignaturesAlways(t, m) ==
    [i \in 1..m.header.numRequiredSignatures |->
        [publicKey |-> m.accountKeys[i], signature |-> <<>>]]

initSignatures(t, m) ==
    IF Len(t.signatures) = 0
    THEN [i \in 1..m.header.numRequiredSignatures |->
            [publicKey |-> m.accountKeys[i], signature |-> <<>>]]
    ELSE t.signatures

\* the loop over the signers; a throw leaves the slots written so far
RECURSIVE signLoop(_, _, _)
signLoop(signatures, signers, messageBytes) ==
    IF signers = <<>> THEN [signatures |-> signatures, error |-> "none"]
    ELSE LET sigIdx == findIndex(signatures, Head(signers))
         IN  IF sigIdx = -1
             THEN [signatures |-> signatures, error |-> "Unknown signer"]
             ELSE signLoop([signatures EXCEPT ![sigIdx + 1].signature =
                                <<signBytes(Head(signers), messageBytes)>>],
                           Tail(signers), messageBytes)

Transaction_partialSignAllOrNothing(t, signers) ==
    IF Transaction_compileError(t) # "none"
    THEN [tx |-> t, error |-> Transaction_compileError(t)]
    ELSE LET m == Transaction_compileMessage(t)
             done == signLoop(initSignatures(t, m), signers, Message_serialize(m))
         IN  IF done.error # "none" THEN [tx |-> t, error |-> done.error]
             ELSE [tx |-> [t EXCEPT !.signatures = done.signatures], error |-> done.error]

Transaction_partialSign(t, signers) ==
    IF Transaction_compileError(t) # "none"
    THEN [tx |-> t, error |-> Transaction_compileError(t)]
    ELSE LET m == Transaction_compileMessage(t)
             done == signLoop(initSignatures(t, m), signers, Message_serialize(m))
         IN  [tx |-> [t EXCEPT !.signatures = done.signatures], error |-> done.error]

Transaction_sign(t, signers) == Transaction_partialSign(t, signers)

Transaction_addSignature(t, pubkey, signature) ==
    LET sigIdx == findIndex(t.signatures, pubkey)
    IN  IF sigIdx = -1
        THEN [t EXCEPT !.signatures = Append(@, [publicKey |-> pubkey, signature |-> <<signature>>])]
        ELSE [t EXCEPT !.signatures[sigIdx + 1].signature = <<signature>>]

RECURSIVE verifyLoopSkipsEmpty(_, _, _)
verifyLoopSkipsEmpty(signatures, requireAllSignatures, messageBytes) ==
    IF signatures = <<>> THEN TRUE
    ELSE LET slot == Head(signatures)
         IN  IF slot.signature = <<>>
             THEN verifyLoopSkipsEmpty(Tail(signatures), requireAllSignatures, messageBytes)
             ELSE IF ~verifySignature(slot.publicKey, slot.signature[1], messageBytes)
                  THEN FALSE
                  ELSE verifyLoopSkipsEmpty(Tail(signatures), requireAllSignatures, messageBytes)

\* the loop of verifySignatures: the first slot that decides ends it
RECURSIVE verifyLoop(_, _, _)
verifyLoop(signatures, requireAllSignatures, messageBytes) ==
    IF signatures = <<>> THEN TRUE
    ELSE LET slot == Head(signatures)
         IN  IF slot.signature = <<>>
             THEN IF requireAllSignatures THEN FALSE
                  ELSE verifyLoop(Tail(signatures), requireAllSignatures, messageBytes)
             ELSE IF ~verifySignature(slot.publicKey, slot.signature[1], messageBytes)
                  THEN FALSE
                  ELSE verifyLoop(Tail(signatures), requireAllSignatures, messageBytes)

\* defined when compileMessage does not throw
Transaction_verifySignatures(t, requireAllSignatures) ==
    verifyLoop(t.signatures, requireAllSignatures, Transaction_serializeMessage(t))

(***************************************************************************)
(* The transaction codec of the wire layout: a compact array of signatures *)
(* (an absent one as ZeroSignature) followed by the message bytes.  The    *)
(* decoder pairs signature k with static signer k of the message and       *)
(* gives an absent signature for ZeroSignature.                            *)
(***************************************************************************)
\* signaturesMap[address] = signature on a JavaScript object: insertion order, one entry per key
mapSet(map, address, signature) ==
    IF \E i \in 1..Len(map) : map[i].address = address
    THEN [i \in 1..Len(map) |->
            IF map[i].address = address THEN [map[i] EXCEPT !.signature = signature] ELSE map[i]]
    ELSE Append(map, [address |-> address, signature |-> signature])

\* signatures[address]: <<>> when null or undefined
mapGet(map, address) ==
    IF \E i \in 1..Len(map) : map[i].address = address
    THEN (CHOOSE e \in Range(map) : e.address = address).signature
    ELSE <<>>

EncodeTransaction(kitTransaction) ==
    LET sigs == kitTransaction.signatures
    IN  <<Len(sigs)>>
        \o [i \in 1..Len(sigs) |->
              IF sigs[i].signature = <<>> THEN ZeroSignature ELSE sigs[i].signature[1]]
        \o kitTransaction.messageBytes

\* the static signer addresses the message bytes declare
SignerAddressesOf(messageBytes) ==
    LET cm == DecodeCompiledMessage(messageBytes)
    IN  SubSeq(cm.staticAccounts, 1, cm.header.numSignerAccounts)

\* the number of signatures must be the number of signers the message declares
DecodeTransactionError(bytes) ==
    IF bytes[1] # Len(SignerAddressesOf(Drop(bytes, bytes[1] + 1)))
    THEN "DecodeError" ELSE "none"

DecodeTransaction(bytes) ==
    LET n == bytes[1]
        messageBytes == Drop(bytes, n + 1)
        signers == SignerAddressesOf(messageBytes)
    IN  [messageBytes |-> messageBytes,
         signatures |-> [i \in 1..n |->
            [address |-> signers[i],
             signature |-> IF bytes[i + 1] = ZeroSignature THEN <<>> ELSE <<bytes[i + 1]>>]]]

\* base-58 text of a signature; the empty string is [text |-> <<>>]
base58Decode(signature) == [text |-> <<signature>>]

base58Encode(string) == string.text[1]

EmptyString == [text |-> <<>>]

(***************************************************************************)
(* Transaction.serialize / from / populate                                 *)
(***************************************************************************)
DefaultConfig == [requireAllSignatures |-> TRUE, verifySignatures |-> TRUE]

signaturesMapOf(signatures) ==
    LET RECURSIVE build(_, _)
        build(map, rest) ==
            IF rest = <<>> THEN map
            ELSE build(mapSet(map, Head(rest).publicKey, Head(rest).signature), Tail(rest))
    IN  build(<<>>, signatures)

\* codecEncodesEmpty: whether the codec accepts a map without any signature
Transaction_serializeError(t, config, codecEncodesEmpty) ==
    IF Transaction_compileError(t) # "none" THEN Transaction_compileError(t)
    ELSE IF config.verifySignatures
            /\ ~Transaction_verifySignatures(t, config.requireAllSignatures)
    THEN "Signature verification failed"
    ELSE IF config.requireAllSignatures
            /\ \E i \in 1..Len(t.signatures) : t.signatures[i].signature = <<>>
    THEN "Missing signature"
    ELSE IF t.signatures = <<>> /\ ~codecEncodesEmpty
    THEN "EncodeError"
    ELSE "none"

\* the bytes returned when Transaction_serializeError is "none"
Transaction_serialize(t) ==
    EncodeTransaction([messageBytes |-> Transaction_serializeMessage(t),
                       signatures |-> signaturesMapOf(t.signatures)])

Transaction_populateReadonly(m, signatures) ==
    [recentBlockhash |-> <<m.recentBlockhash>>,
     feePayer |-> IF Len(m.accountKeys) > 0 THEN <<m.accountKeys[1]>> ELSE <<>>,
     signatures |-> [i \in 1..m.header.numRequiredSignatures |->
        [publicKey |-> m.accountKeys[i],
         signature |-> IF i <= Len(signatures) /\ signatures[i] # EmptyString
                       THEN <<base58Encode(signatures[i])>> ELSE <<>>]],
     instructions |-> [n \in 1..Len(m.instructions) |->
        [data |-> fromBase64(m.instructions[n].data),
         keys |-> [k \in 1..Len(m.instructions[n].accounts) |->
            [isSigner |-> Message_isAccountSigner(m, m.instructions[n].accounts[k]),
             isWritable |-> FALSE,
             pubkey |-> m.accountKeys[m.instructions[n].accounts[k] + 1]]],
         programId |-> m.accountKeys[m.instructions[n].programIdIndex + 1]]]]

Transaction_populate(m, signatures) ==
    [recentBlockhash |-> <<m.recentBlockhash>>,
     feePayer |-> IF Len(m.accountKeys) > 0 THEN <<m.accountKeys[1]>> ELSE <<>>,
     signatures |-> [i \in 1..m.header.numRequiredSignatures |->
        [publicKey |-> m.accountKeys[i],
         signature |-> IF i <= Len(signatures) /\ signatures[i] # EmptyString
                       THEN <<base58Encode(signatures[i])>> ELSE <<>>]],
     instructions |-> [n \in 1..Len(m.instructions) |->
        [data |-> fromBase64(m.instructions[n].data),
         keys |-> [k \in 1..Len(m.instructions[n].accounts) |->
            [isSigner |-> Message_isAccountSigner(m, m.instructions[n].accounts[k]),
             isWritable |-> Message_isAccountWritable(m, m.instructions[n].accounts[k]),
             pubkey |-> m.accountKeys[m.instructions[n].accounts[k] + 1]]],
         programId |-> m.accountKeys[m.instructions[n].programIdIndex + 1]]]]

\* defined when DecodeTransactionError is "none"
Transaction_from(bytes) ==
    LET kitTransaction == DecodeTransaction(bytes)
        m == Message_from(kitTransaction.messageBytes)
        signatureStrings == [i \in 1..m.header.numRequiredSignatures |->
            LET sig == mapGet(kitTransaction.signatures, m.accountKeys[i])
            IN  IF sig # <<>> THEN base58Decode(sig[1]) ELSE EmptyString]
    IN  Transaction_populate(m, signatureStrings)

(***************************************************************************)
(* VersionedTransaction: a fixed message (legacy or V0) and one signature  *)
(* per required signer, ZeroSignature meaning "not signed".                *)
(***************************************************************************)
staticAccountKeysOf(m) ==
    IF m.version = LegacyVersion THEN m.accountKeys ELSE m.staticAccountKeys

VersionedMessage_serialize(m) ==
    IF m.version = LegacyVersion THEN Message_serialize(m) ELSE MessageV0_serialize(m)

\* new VersionedTransaction(message): the signatures default to zeros
VersionedTransaction_new(m) ==
    [message |-> m,
     signatures |-> [i \in 1..m.header.numRequiredSignatures |-> ZeroSignature]]

\* staticAccountKeys.findIndex(k => k equals pubkey): 0-based, -1 when absent
keyIndex(keys, pubkey) ==
    IF \E i \in 1..Len(keys) : keys[i] = pubkey
    THEN (CHOOSE i \in 1..Len(keys) : keys[i] = pubkey /\ \A j \in 1..(i - 1) : keys[j] # pubkey) - 1
    ELSE -1

RECURSIVE versionedSignLoop(_, _, _, _)
versionedSignLoop(signatures, keys, signers, messageBytes) ==
    IF signers = <<>> THEN [signatures |-> signatures, error |-> "none"]
    ELSE LET sigIdx == keyIndex(keys, Head(signers))
         IN  IF sigIdx = -1 \/ sigIdx >= Len(signatures)
             THEN [signatures |-> signatures, error |-> "Unknown signer"]
             ELSE versionedSignLoop(
                      [signatures EXCEPT ![sigIdx + 1] = signBytes(Head(signers), messageBytes)],
                      keys, Tail(signers), messageBytes)

VersionedTransaction_sign(v, signers) ==
    LET done == versionedSignLoop(v.signatures, staticAccountKeysOf(v.message), signers,
                                  VersionedMessage_serialize(v.message))
    IN  [vtx |-> [v EXCEPT !.signatures = done.signatures], error |-> done.error]

VersionedTransaction_addSignature(v, publicKey, signature) ==
    LET sigIdx == keyIndex(staticAccountKeysOf(v.message), publicKey)
    IN  IF sigIdx = -1 \/ sigIdx >= Len(v.signatures)
        THEN [vtx |-> v, error |-> "Unknown signer"]
        ELSE [vtx |-> [v EXCEPT !.signatures[sigIdx + 1] = signature], error |-> "none"]

versionedSignaturesMap(v) ==
    LET keys == staticAccountKeysOf(v.message)
        RECURSIVE build(_, _)
        build(map, i) ==
            IF i > Len(v.signatures) THEN map
            ELSE build(mapSet(map, keys[i],
                              IF v.signatures[i] = ZeroSignature THEN <<>> ELSE <<v.signatures[i]>>),
                       i + 1)
    IN  build(<<>>, 1)

VersionedTransaction_serialize(v) ==
    EncodeTransaction([messageBytes |-> VersionedMessage_serialize(v.message),
                       signatures |-> versionedSignaturesMap(v)])

\* defined when DecodeTransactionError is "none"
VersionedTransaction_deserialize(bytes) ==
    LET kitTransaction == DecodeTransaction(bytes)
        m == VersionedMessage_deserialize(kitTransaction.messageBytes)
        keys == staticAccountKeysOf(m)
    IN  [message |-> m,
         signatures |-> [i \in 1..m.header.numRequiredSignatures |->
            LET sig == mapGet(kitTransaction.signatures, keys[i])
            IN  IF sig # <<>> THEN sig[1] ELSE ZeroSignature]]

(***************************************************************************)
(* Specification of one Transaction object: it is constructed, then any    *)
(* of its methods is called, in any order, with any of the inputs below.   *)
(***************************************************************************)
MaxTxInstr == 2

Keypairs == {1, 2}

TxInstrChoices ==
    { Ix(4, <<>>, <<1>>),
      Ix(4, <<Meta(1, TRUE, FALSE), Meta(2, TRUE, FALSE)>>, <<>>) }

SignerLists ==
    { <<a>> : a \in Keypairs } \cup { <<a, b>> : a, b \in Keypairs }

ConfigChoices == [requireAllSignatures : BOOLEAN, verifySignatures : BOOLEAN]

MessageIdle ==
    /\ payerKey = 1
    /\ recentBlockhash = 77
    /\ instructions = <<>>
    /\ addressLookupTableAccounts = <<>>
    /\ message = <<>>
    /\ serialized = <<>>
    /\ restored = <<>>
    /\ prefix = <<>>
    /\ detected = <<>>

\* new Transaction(opts): no instructions and no slots yet
Transaction_new(feePayer, blockhash) ==
    [feePayer |-> feePayer, recentBlockhash |-> blockhash,
     instructions |-> <<>>, signatures |-> <<>>]

InitTx ==
    /\ MessageIdle
    /\ \E feePayer \in {<<>>, <<1>>}, blockhash \in {<<>>, <<77>>} :
          tx = <<Transaction_new(feePayer, blockhash)>>
    /\ vtx = <<>>
    /\ outcome = <<>>
    /\ KeyIdle

Returned(op, arg, error, value) ==
    <<[op |-> op, arg |-> arg, error |-> error, value |-> value]>>

SetFeePayer ==
    \E k \in {2} :
        /\ tx' = <<[tx[1] EXCEPT !.feePayer = <<k>>]>>
        /\ outcome' = Returned("feePayer", k, "none", <<>>)
        /\ UNCHANGED <<keyVars, calls, msgVars, vtx>>

SetRecentBlockhash ==
    \E b \in {77} :
        /\ tx' = <<[tx[1] EXCEPT !.recentBlockhash = <<b>>]>>
        /\ outcome' = Returned("recentBlockhash", b, "none", <<>>)
        /\ UNCHANGED <<keyVars, calls, msgVars, vtx>>

Add ==
    \E ix \in TxInstrChoices :
        /\ Len(tx[1].instructions) < MaxTxInstr
        /\ tx' = <<Transaction_add(tx[1], <<ix>>)>>
        /\ outcome' = Returned("add", ix, "none", <<>>)
        /\ UNCHANGED <<keyVars, calls, msgVars, vtx>>

Sign ==
    \E signers \in SignerLists :
        LET r == Transaction_sign(tx[1], signers)
        IN  /\ tx' = <<r.tx>>
            /\ outcome' = Returned("sign", signers, r.error, <<>>)
            /\ UNCHANGED <<keyVars, calls, msgVars, vtx>>

PartialSign ==
    \E signers \in SignerLists :
        LET r == Transaction_partialSign(tx[1], signers)
        IN  /\ tx' = <<r.tx>>
            /\ outcome' = Returned("partialSign", signers, r.error, <<>>)
            /\ UNCHANGED <<keyVars, calls, msgVars, vtx>>

\* a signature made elsewhere: junk, or the key's signature of the current message
ExternalSignatures(t, pubkey) ==
    {JunkSignature}
    \cup (IF Transaction_compileError(t) = "none"
          THEN {signBytes(pubkey, Transaction_serializeMessage(t))} ELSE {})

AddSignature ==
    \E pubkey \in Keypairs :
        \E signature \in ExternalSignatures(tx[1], pubkey) :
            /\ tx' = <<Transaction_addSignature(tx[1], pubkey, signature)>>
            /\ outcome' = Returned("addSignature", <<pubkey, signature>>, "none", <<>>)
            /\ UNCHANGED <<keyVars, calls, msgVars, vtx>>

VerifySignatures ==
    \E requireAllSignatures \in BOOLEAN :
        /\ outcome' =
              IF Transaction_compileError(tx[1]) # "none"
              THEN Returned("verifySignatures", requireAllSignatures,
                            Transaction_compileError(tx[1]), <<>>)
              ELSE Returned("verifySignatures", requireAllSignatures, "none",
                            <<Transaction_verifySignatures(tx[1], requireAllSignatures)>>)
        /\ UNCHANGED <<keyVars, calls, msgVars, tx, vtx>>

Serialize ==
    \E config \in ConfigChoices,
       codecEncodesEmpty \in (IF tx[1].signatures = <<>> THEN BOOLEAN ELSE {TRUE}) :
        LET error == Transaction_serializeError(tx[1], config, codecEncodesEmpty)
        IN  /\ outcome' = Returned("serialize", config, error,
                                   IF error = "none" THEN <<Transaction_serialize(tx[1])>> ELSE <<>>)
            /\ UNCHANGED <<keyVars, calls, msgVars, tx, vtx>>

\* Transaction.from on the bytes serialize just returned
TransactionFrom ==
    /\ outcome # <<>>
    /\ outcome[1].op = "serialize" /\ outcome[1].error = "none"
    /\ LET bytes == outcome[1].value[1]
           error == DecodeTransactionError(bytes)
       IN  /\ tx' = IF error = "none" THEN <<Transaction_from(bytes)>> ELSE tx
           /\ outcome' = Returned("from", bytes, error, <<>>)
    /\ UNCHANGED <<keyVars, calls, msgVars, vtx>>

NextTx ==
    \/ SetFeePayer
    \/ SetRecentBlockhash
    \/ Add
    \/ Sign
    \/ PartialSign
    \/ AddSignature
    \/ VerifySignatures
    \/ Serialize
    \/ TransactionFrom

SpecTx == InitTx /\ [][NextTx]_vars

(***************************************************************************)
(* What a Transaction's claims speak of: the message its fields compile to *)
(* now, that message's required static signers, and the slots.             *)
(***************************************************************************)
TxCompiles == tx # <<>> /\ Transaction_compileError(tx[1]) = "none"

TxMessage == Transaction_compileMessage(tx[1])

TxMessageBytes == Transaction_serializeMessage(tx[1])

\* the required static signers of the current message, in header order
RequiredSigners == SubSeq(TxMessage.accountKeys, 1, TxMessage.header.numRequiredSignatures)

Slots == tx[1].signatures

SlotKeys == [i \in 1..Len(Slots) |-> Slots[i].publicKey]

\* the signature stored for an address: <<>> when it has no slot or an empty one
StoredFor(k) ==
    IF \E i \in 1..Len(Slots) : Slots[i].publicKey = k
    THEN Slots[CHOOSE i \in 1..Len(Slots) : Slots[i].publicKey = k].signature
    ELSE <<>>

Called(op) == outcome # <<>> /\ outcome[1].op = op

CalledSign == Called("sign") \/ Called("partialSign")

(***************************************************************************)
(* C11: a call of sign or partialSign on a Transaction whose message       *)
(* compiles throws "Unknown signer" exactly when one of the signers given  *)
(* is not a required static signer of that message.                        *)
(***************************************************************************)
C11_UnknownSignerExact ==
    (CalledSign /\ TxCompiles) =>
        (outcome[1].error = "Unknown signer"
            <=> \E i \in 1..Len(outcome[1].arg) : outcome[1].arg[i] \notin Range(RequiredSigners))

(***************************************************************************)
(* C12: once a Transaction has slots, they are the required static signers *)
(* of its message, one slot each, in the header's order.                   *)
(***************************************************************************)
C12_SlotsAreRequiredSigners ==
    (TxCompiles /\ Slots # <<>>) => SlotKeys = RequiredSigners

SlotEmpty(i) == Slots[i].signature = <<>>

SlotValid(i) ==
    ~SlotEmpty(i) /\ verifySignature(Slots[i].publicKey, Slots[i].signature[1], TxMessageBytes)

(***************************************************************************)
(* C13: verifySignatures(requireAll), when it returns, returns true if and *)
(* only if every non-empty slot holds a signature that is valid for the    *)
(* transaction's current message bytes and the slot's address and, when    *)
(* requireAll is true, no slot is empty.                                   *)
(***************************************************************************)
C13_VerifyIffAllValid ==
    (Called("verifySignatures") /\ outcome[1].error = "none") =>
        (outcome[1].value[1]
            <=> /\ \A i \in 1..Len(Slots) : SlotEmpty(i) \/ SlotValid(i)
                /\ outcome[1].arg => \A i \in 1..Len(Slots) : ~SlotEmpty(i))

\* verify(true) is false only for an empty slot that follows a valid one
C13_Witness ==
    /\ Called("verifySignatures") /\ outcome[1].error = "none"
    /\ outcome[1].arg /\ ~outcome[1].value[1]
    /\ Len(Slots) = 2 /\ SlotValid(1) /\ SlotEmpty(2)

\* a required static signer of the current message with no signature stored for it
Unsigned(k) == k \in Range(RequiredSigners) /\ StoredFor(k) = <<>>

(***************************************************************************)
(* C14: verifySignatures(true) returns false whenever some required static *)
(* signer of the transaction's message has no signature stored, also on a  *)
(* transaction that was never signed.                                      *)
(***************************************************************************)
C14_VerifyAllNeedsEverySigner ==
    (Called("verifySignatures") /\ outcome[1].error = "none" /\ outcome[1].arg
        /\ \E k \in Keypairs : Unsigned(k))
    => ~outcome[1].value[1]

(***************************************************************************)
(* C15: serialize() that demands completeness (requireAllSignatures not    *)
(* set to false), on a transaction one of whose required static signers    *)
(* has no signature stored, throws "Missing signature" and returns no      *)
(* bytes; so under the default configuration and when never signed.        *)
(***************************************************************************)
C15_SerializeMissingSignature ==
    (Called("serialize") /\ TxCompiles /\ outcome[1].arg.requireAllSignatures
        /\ \E k \in Keypairs : Unsigned(k))
    => (outcome[1].error = "Missing signature" /\ outcome[1].value = <<>>)

\* every required static signer's slot holds that signer's signature of the current message
AllRequiredSigned ==
    \A k \in Range(RequiredSigners) :
        StoredFor(k) = <<signBytes(k, TxMessageBytes)>>

(***************************************************************************)
(* C16: when every required signer's signature of the current message is   *)
(* in place (all have signed and nothing changed since),                   *)
(* verifySignatures(true) returns true and serialize() with the default    *)
(* configuration succeeds; and serialize() with the default configuration  *)
(* returns no bytes while a stored signature is invalid for the current    *)
(* message bytes.                                                          *)
(***************************************************************************)
C16_AllSignedVerifiesAndSerializes ==
    /\ (Called("verifySignatures") /\ TxCompiles /\ outcome[1].arg /\ AllRequiredSigned)
          => (outcome[1].error = "none" /\ outcome[1].value[1])
    /\ (Called("serialize") /\ TxCompiles /\ outcome[1].arg = DefaultConfig /\ AllRequiredSigned)
          => outcome[1].error = "none"
    /\ (Called("serialize") /\ TxCompiles /\ outcome[1].arg = DefaultConfig
          /\ \E i \in 1..Len(Slots) : ~SlotEmpty(i) /\ ~SlotValid(i))
          => outcome[1].value = <<>>

\* what the wire holds for a signer: its stored signature, or zeros when it has none
WireSignatureFor(k) == IF StoredFor(k) = <<>> THEN ZeroSignature ELSE StoredFor(k)[1]

(***************************************************************************)
(* C17: the bytes Transaction.serialize returns for a transaction that    *)
(* has slots are the number of required signatures of the message, then    *)
(* for each static signer k of the message in order its signature (zeros   *)
(* when its slot is empty), then the message bytes.                        *)
(***************************************************************************)
C17_WireSignaturesFollowSigners ==
    (Called("serialize") /\ outcome[1].error = "none" /\ Slots # <<>>) =>
        LET bytes == outcome[1].value[1]
            n == TxMessage.header.numRequiredSignatures
        IN  /\ bytes[1] = n
            /\ Len(bytes) = 1 + n + Len(TxMessageBytes)
            /\ \A k \in 1..n : bytes[1 + k] = WireSignatureFor(RequiredSigners[k])
            /\ Drop(bytes, 1 + n) = TxMessageBytes

\* the signature a Transaction object holds for an address: <<>> when none
StoredIn(t, k) ==
    IF \E i \in 1..Len(t.signatures) : t.signatures[i].publicKey = k
    THEN t.signatures[CHOOSE i \in 1..Len(t.signatures) : t.signatures[i].publicKey = k].signature
    ELSE <<>>

RequiredSignersOf(t) ==
    LET m == Transaction_compileMessage(t)
    IN  SubSeq(m.accountKeys, 1, m.header.numRequiredSignatures)

(***************************************************************************)
(* C18: when Transaction.from returns for the bytes t.serialize() gave,    *)
(* the rebuilt transaction has one slot per required static signer of its  *)
(* message, in the message's order, each holding the signature t held for  *)
(* that address (empty where t's was empty), and its message has the same  *)
(* bytes as t's.                                                           *)
(***************************************************************************)
C18_TransactionRoundTrip ==
    [][(outcome' # <<>> /\ outcome'[1].op = "from" /\ outcome'[1].error = "none") =>
        LET t == tx[1]
            r == tx'[1]
        IN  /\ Transaction_serializeMessage(r) = Transaction_serializeMessage(t)
            /\ [i \in 1..Len(r.signatures) |-> r.signatures[i].publicKey] = RequiredSignersOf(r)
            /\ \A i \in 1..Len(r.signatures) :
                  r.signatures[i].signature = StoredIn(t, r.signatures[i].publicKey)]_vars

\* the slots after a signs alone and then b signs alone
SignedInTurn(t, a, b) ==
    Transaction_partialSign(Transaction_partialSign(t, <<a>>).tx, <<b>>).tx.signatures

BothCanSign(t, a, b) ==
    /\ Transaction_partialSign(t, <<a>>).error = "none"
    /\ Transaction_partialSign(t, <<b>>).error = "none"

(***************************************************************************)
(* C20: for two different required signers A and B of a transaction, the   *)
(* slots after A then B sign are the slots after B then A sign; when both  *)
(* sign, the slots hold A's and B's signatures of the message; and a       *)
(* signer's call changes no slot but its own.                              *)
(***************************************************************************)
C20_SignOrderIrrelevant ==
    TxCompiles =>
        \A a, b \in Range(RequiredSigners) :
            a # b =>
                /\ SignedInTurn(tx[1], a, b) = SignedInTurn(tx[1], b, a)
                /\ BothCanSign(tx[1], a, b) =>
                      LET after == [tx[1] EXCEPT !.signatures = SignedInTurn(tx[1], a, b)]
                      IN  /\ StoredIn(after, a) = <<signBytes(a, TxMessageBytes)>>
                          /\ StoredIn(after, b) = <<signBytes(b, TxMessageBytes)>>
                /\ Slots # <<>> =>
                      \A k \in Range(SlotKeys) \ {a} :
                          StoredIn(Transaction_partialSign(tx[1], <<a>>).tx, k) = StoredFor(k)

\* B has just signed a transaction that A had signed before; both signatures are in place
C20_Witness ==
    /\ TxCompiles
    /\ Called("partialSign") /\ outcome[1].arg = <<2>> /\ outcome[1].error = "none"
    /\ RequiredSigners = <<1, 2>>
    /\ StoredFor(1) = <<signBytes(1, TxMessageBytes)>>
    /\ StoredFor(2) = <<signBytes(2, TxMessageBytes)>>

(***************************************************************************)
(* Specification of a Transaction and a VersionedTransaction side by side: *)
(* both are built over the same fee payer, blockhash and instructions and  *)
(* then receive the same calls with the same arguments.                    *)
(***************************************************************************)
ReturnedBoth(op, arg, error, value, versionedError, versionedValue) ==
    <<[op |-> op, arg |-> arg, error |-> error, value |-> value,
       versioned |-> [error |-> versionedError, value |-> versionedValue]]>>

InitPair ==
    /\ MessageIdle
    /\ \E feePayer \in Keypairs, ixs \in SeqsUpTo(TxInstrChoices, MaxTxInstr), v0 \in BOOLEAN :
          /\ tx = <<[Transaction_new(<<feePayer>>, <<77>>) EXCEPT !.instructions = ixs]>>
          /\ vtx = <<VersionedTransaction_new(
                        IF v0 THEN MessageV0_compile(feePayer, 77, ixs, <<>>)
                        ELSE Message_compile(feePayer, 77, ixs))>>
    /\ outcome = <<>>
    /\ KeyIdle

PairSign ==
    \E signers \in SignerLists :
        LET r == Transaction_sign(tx[1], signers)
            v == VersionedTransaction_sign(vtx[1], signers)
        IN  /\ tx' = <<r.tx>>
            /\ vtx' = <<v.vtx>>
            /\ outcome' = ReturnedBoth("sign", signers, r.error, <<>>, v.error, <<>>)
            /\ UNCHANGED <<keyVars, calls, msgVars>>

\* junk, or the key's signature of either object's message
PairExternalSignatures(pubkey) ==
    {JunkSignature,
     signBytes(pubkey, Transaction_serializeMessage(tx[1])),
     signBytes(pubkey, VersionedMessage_serialize(vtx[1].message))}

PairAddSignature ==
    \E pubkey \in Keypairs :
        \E signature \in PairExternalSignatures(pubkey) :
            LET v == VersionedTransaction_addSignature(vtx[1], pubkey, signature)
            IN  /\ tx' = <<Transaction_addSignature(tx[1], pubkey, signature)>>
                /\ vtx' = <<v.vtx>>
                /\ outcome' = ReturnedBoth("addSignature", <<pubkey, signature>>,
                                           "none", <<>>, v.error, <<>>)
                /\ UNCHANGED <<keyVars, calls, msgVars>>

\* Transaction.serialize() with its default configuration, VersionedTransaction.serialize()
PairSerialize ==
    \E codecEncodesEmpty \in (IF tx[1].signatures = <<>> THEN BOOLEAN ELSE {TRUE}) :
        LET error == Transaction_serializeError(tx[1], DefaultConfig, codecEncodesEmpty)
        IN  /\ outcome' = ReturnedBoth("serialize", DefaultConfig, error,
                              IF error = "none" THEN <<Transaction_serialize(tx[1])>> ELSE <<>>,
                              "none", <<VersionedTransaction_serialize(vtx[1])>>)
            /\ UNCHANGED <<keyVars, calls, msgVars, tx, vtx>>

\* VersionedTransaction.deserialize on the bytes its serialize just returned
VersionedTransactionDeserialize ==
    /\ outcome # <<>>
    /\ outcome[1].op = "serialize"
    /\ LET bytes == outcome[1].versioned.value[1]
           error == DecodeTransactionError(bytes)
       IN  /\ vtx' = IF error = "none" THEN <<VersionedTransaction_deserialize(bytes)>> ELSE vtx
           /\ outcome' = ReturnedBoth("deserialize", bytes, "none", <<>>, error, <<>>)
    /\ UNCHANGED <<keyVars, calls, msgVars, tx>>

NextPair ==
    \/ PairSign
    \/ PairAddSignature
    \/ PairSerialize
    \/ VersionedTransactionDeserialize

SpecPair == InitPair /\ [][NextPair]_vars

VtxKeys == staticAccountKeysOf(vtx[1].message)

VtxMessageBytes == VersionedMessage_serialize(vtx[1].message)

VtxSlotEmpty(i) == vtx[1].signatures[i] = ZeroSignature

VtxSlotValid(i) == verifySignature(VtxKeys[i], vtx[1].signatures[i], VtxMessageBytes)

(***************************************************************************)
(* C19: given the same sign, addSignature and serialize calls, a           *)
(* VersionedTransaction accepts exactly the calls the Transaction over the *)
(* same signers accepts, and its serialize returns bytes only when no      *)
(* required slot is empty and every stored signature is valid.             *)
(***************************************************************************)
C19_SameStateMachine ==
    (outcome # <<>> /\ outcome[1].op \in {"sign", "addSignature", "serialize"}) =>
        /\ (outcome[1].error = "none") <=> (outcome[1].versioned.error = "none")
        /\ (outcome[1].op = "serialize" /\ outcome[1].versioned.error = "none") =>
              \A i \in 1..Len(vtx[1].signatures) : ~VtxSlotEmpty(i) /\ VtxSlotValid(i)

SomeSlotSigned == \E i \in 1..Len(Slots) : ~SlotEmpty(i)

OperationDone(ops) == outcome' # <<>> /\ outcome'[1].op \in ops

(***************************************************************************)
(* C21 as claimed: once a Transaction holds a signature, none of add,      *)
(* sign, partialSign, addSignature, verifySignatures and serialize changes *)
(* the bytes of its message.                                               *)
(***************************************************************************)
C21_MessageFixedOnceSigned ==
    [][(OperationDone({"add", "sign", "partialSign", "addSignature",
                       "verifySignatures", "serialize"})
        /\ TxCompiles /\ SomeSlotSigned)
       => Transaction_serializeMessage(tx'[1]) = TxMessageBytes]_vars

(***************************************************************************)
(* C21 amended: sign, partialSign, addSignature, verifySignatures and      *)
(* serialize never change the bytes of a Transaction's message, and a      *)
(* successful sign or partialSign leaves in each signer's slot its         *)
(* signature of exactly those bytes; add is the operation that changes     *)
(* them.                                                                   *)
(***************************************************************************)
C21_OnlyAddChangesMessage ==
    [][OperationDone({"sign", "partialSign", "addSignature",
                      "verifySignatures", "serialize"})
       => \/ tx' = tx /\ outcome'[1].op \notin {"sign", "partialSign"}
          \/ ~TxCompiles
          \/ LET messageBytes == TxMessageBytes
             IN  /\ tx' = tx \/ Transaction_serializeMessage(tx'[1]) = messageBytes
                 /\ (outcome'[1].op \in {"sign", "partialSign"}
                     /\ outcome'[1].error = "none") =>
                       \A i \in 1..Len(outcome'[1].arg) :
                           StoredIn(tx'[1], outcome'[1].arg[i])
                               = <<signBytes(outcome'[1].arg[i], messageBytes)>>]_vars

\* an outside signature was added to a transaction that a signer had signed before
C21_Witness ==
    /\ TxCompiles
    /\ Called("addSignature") /\ outcome[1].arg[1] = 2
    /\ Len(Slots) = 2 /\ SlotValid(1) /\ ~SlotEmpty(2)
    /\ Len(tx[1].instructions) > 0

(***************************************************************************)
(* C26: in every message MessageV0.compile produces, each compiled         *)
(* instruction's programIdIndex is smaller than the number of static       *)
(* account keys, whatever the order of the instructions and the contents   *)
(* of the supplied tables.                                                 *)
(***************************************************************************)
C26_ProgramIdIndexStatic ==
    CompiledV0 =>
        \A n \in 1..Len(CompiledInstructions) :
            CompiledInstructions[n].programIdIndex < Len(StaticKeys)

SerializedVersion == DecodeCompiledMessage(serialized[1]).version

(***************************************************************************)
(* C27: a decoder never returns a message of the other variant: Message    *)
(* .from returns a result only for bytes of a legacy message, and          *)
(* MessageV0.deserialize only for bytes of a versioned message.            *)
(***************************************************************************)
C27_DecodeKeepsVariant ==
    restored # <<>> =>
        /\ restored[1].by = "Message.from" => SerializedVersion = LegacyVersion
        /\ restored[1].by = "MessageV0.deserialize" => SerializedVersion # LegacyVersion

(***************************************************************************)
(* Specification of decompile/recompile: a message Message.compile         *)
(* returned is handed to Transaction.populate, and the Transaction it      *)
(* returns compiles its message again.                                     *)
(***************************************************************************)
InitPopulate ==
    /\ payerKey \in PayerChoices
    /\ recentBlockhash \in BlockhashChoices
    /\ instructions \in InstrLists
    /\ addressLookupTableAccounts = <<>>
    /\ message = <<Message_compile(payerKey, recentBlockhash, instructions)>>
    /\ serialized = <<>>
    /\ restored = <<>>
    /\ prefix = <<>>
    /\ detected = <<>>
    /\ tx = <<>> /\ vtx = <<>> /\ outcome = <<>>
    /\ KeyIdle

Populate ==
    /\ tx = <<>>
    /\ tx' = <<Transaction_populate(message[1], <<>>)>>
    /\ outcome' = Returned("populate", message[1], "none", <<>>)
    /\ UNCHANGED <<keyVars, calls, msgVars, vtx>>

CompileMessage ==
    /\ tx # <<>> /\ outcome[1].op = "populate"
    /\ outcome' = Returned("compileMessage", <<>>, Transaction_compileError(tx[1]),
                           IF Transaction_compileError(tx[1]) = "none"
                           THEN Transaction_compileMessage(tx[1]) ELSE <<>>)
    /\ UNCHANGED <<keyVars, calls, msgVars, tx, vtx>>

NextPopulate ==
    \/ Populate
    \/ CompileMessage

SpecPopulate == InitPopulate /\ [][NextPopulate]_vars

(***************************************************************************)
(* C28: for every message m that Message.compile produces, the message     *)
(* Transaction.populate(m).compileMessage() returns equals m: same account *)
(* keys in the same order, same header, same recent blockhash and same     *)
(* compiled instructions.                                                  *)
(***************************************************************************)
C28_PopulateThenCompileIsIdentity ==
    (outcome # <<>> /\ outcome[1].op = "compileMessage") =>
        /\ outcome[1].error = "none"
        /\ outcome[1].value = message[1]

\* recompiled: two instructions, several signers, an account that is both a program and a key
C28_Witness ==
    /\ outcome # <<>> /\ outcome[1].op = "compileMessage"
    /\ Len(message[1].instructions) = 2
    /\ message[1].header.numRequiredSignatures >= 2
    /\ \E n, k \in 1..2 :
          message[1].instructions[n].programIdIndex \in Range(message[1].instructions[k].accounts)

KeysOf(signatures) == [i \in 1..Len(signatures) |-> signatures[i].publicKey]

\* the slots a call of sign or partialSign on t starts from
StartingSlots(t) ==
    IF t.signatures # <<>> THEN t.signatures
    ELSE [i \in 1..Len(RequiredSignersOf(t)) |->
            [publicKey |-> RequiredSignersOf(t)[i], signature |-> <<>>]]

\* the call processed signers[1..n] and no other: their slots are signed, the others are as before
ProcessedUpTo(t, after, signers, n) ==
    /\ after.recentBlockhash = t.recentBlockhash
    /\ after.feePayer = t.feePayer
    /\ after.instructions = t.instructions
    /\ KeysOf(after.signatures) = KeysOf(StartingSlots(t))
    /\ \A i \in 1..Len(after.signatures) :
          IF \E j \in 1..n : signers[j] = after.signatures[i].publicKey
          THEN after.signatures[i].signature
                  = <<signBytes(after.signatures[i].publicKey, Transaction_serializeMessage(t))>>
          ELSE after.signatures[i].signature = StartingSlots(t)[i].signature

(***************************************************************************)
(* C30: sign and partialSign are not all-or-nothing.  The signers are      *)
(* processed in argument order; when the k-th is rejected with "Unknown    *)
(* signer", the slots of signers 1..k-1 hold their new signatures, every   *)
(* other slot is as before, and a slot array that was empty has been       *)
(* initialised to one empty slot per required signer; when the message     *)
(* does not compile the transaction is left unchanged.                     *)
(***************************************************************************)
C30_SignIsNotAtomic ==
    [][OperationDone({"sign", "partialSign"}) =>
        LET t == tx[1]
            after == tx'[1]
            signers == outcome'[1].arg
            error == outcome'[1].error
            known(j) == signers[j] \in Range(KeysOf(StartingSlots(t)))
        IN  IF ~TxCompiles
            THEN error = Transaction_compileError(t) /\ after = t
            ELSE IF error = "Unknown signer"
            THEN \E k \in 1..Len(signers) :
                    /\ ~known(k)
                    /\ \A j \in 1..(k - 1) : known(j)
                    /\ ProcessedUpTo(t, after, signers, k - 1)
            ELSE /\ error = "none"
                 /\ \A j \in 1..Len(signers) : known(j)
                 /\ ProcessedUpTo(t, after, signers, Len(signers))]_vars

\* the second of two signers was rejected after the first had signed into fresh slots
C30_Witness ==
    /\ CalledSign /\ outcome[1].error = "Unknown signer"
    /\ Len(outcome[1].arg) = 2 /\ outcome[1].arg[1] # outcome[1].arg[2]
    /\ TxCompiles
    /\ KeysOf(Slots) = <<outcome[1].arg[1]>>
    /\ SlotValid(1)

(***************************************************************************)
(* PublicKey (publickey.ts).  A byte array is the sequence of its bytes.   *)
(* SHA-256 is a perfect hash: the digest of an input is the input itself,  *)
(* tagged.  An address is compared by its base58 text, which stands in     *)
(* one-to-one relation with its 32 bytes, so an address made from a digest *)
(* is that digest.  Which digests are points on the signing curve is given *)
(* by curve: a digest is on the curve when the sum of the hashed bytes,    *)
(* taken modulo CurveModulus, is in curve.                                 *)
(***************************************************************************)
MAX_SEED_LENGTH == 32

MAX_SEEDS == 16

PUBLIC_KEY_LENGTH == 32

PDA_MARKER_BYTES ==
    <<80, 114, 111, 103, 114, 97, 109, 68, 101, 114, 105, 118, 101, 100, 65, 100, 100, 114,
      101, 115, 115>>

CurveModulus == 4

Bytes(n, b) == [i \in 1..n |-> b]

\* the sum of the bytes, by halves
RECURSIVE SumBytes(_)
SumBytes(bytes) ==
    IF bytes = <<>> THEN 0
    ELSE IF Len(bytes) = 1 THEN bytes[1]
    ELSE LET mid == Len(bytes) \div 2
         IN  SumBytes(SubSeq(bytes, 1, mid)) + SumBytes(SubSeq(bytes, mid + 1, Len(bytes)))

\* a seed is a Uint8Array or a string (the sequence of its code points, all below 2048)
BytesSeed(bytes) == [kind |-> "bytes", value |-> bytes]

StringSeed(codePoints) == [kind |-> "string", value |-> codePoints]

\* new TextEncoder().encode(text): UTF-8, one byte below 128 and two bytes from 128 on
RECURSIVE TextEncoder_encode(_)
TextEncoder_encode(codePoints) ==
    IF codePoints = <<>> THEN <<>>
    ELSE LET c == Head(codePoints)
         IN  (IF c < 128 THEN <<c>> ELSE <<192 + (c \div 64), 128 + (c % 64)>>)
                \o TextEncoder_encode(Tail(codePoints))

\* crypto.subtle.digest('SHA-256', input)
sha256(input) == [digest |-> input]

\* getAddressDecoder().decode(bytes) of the 32 bytes of a digest
addressDecode(hash) == [address |-> hash.digest]

isOffCurveAddress(derivedAddress) == (SumBytes(derivedAddress.address) % CurveModulus) \notin curve

\* programId.toBytes(): the address numbered p is the 32 bytes p, p, ..., p
PublicKey_toBytes(p) == Bytes(PUBLIC_KEY_LENGTH, p)

\* new PublicKey(value) for a Uint8Array or an array of numbers
PublicKey_new(bytes) ==
    IF Len(bytes) # PUBLIC_KEY_LENGTH
    THEN [error |-> "Invalid public key input", value |-> <<>>, crypto |-> <<>>]
    ELSE [error |-> "none", value |-> <<[address |-> bytes]>>, crypto |-> <<>>]

seedToBytes(seed) == IF seed.kind = "string" THEN TextEncoder_encode(seed.value) ELSE seed.value

\* the loop over the seeds: the first seed that is too long ends it
RECURSIVE seedLoop(_, _)
seedLoop(seeds, seedBytes) ==
    IF seeds = <<>> THEN [error |-> "none", seedBytes |-> seedBytes]
    ELSE LET bytes == seedToBytes(Head(seeds))
         IN  IF Len(bytes) > MAX_SEED_LENGTH
             THEN [error |-> "Max seed length exceeded", seedBytes |-> seedBytes]
             ELSE seedLoop(Tail(seeds), seedBytes \o bytes)

PublicKey_createProgramAddressProgramFirst(seeds, programId) ==
    IF Len(seeds) > MAX_SEEDS
    THEN [error |-> "Max seed count exceeded", value |-> <<>>, crypto |-> <<>>]
    ELSE LET loop == seedLoop(seeds, <<>>)
         IN  IF loop.error # "none"
             THEN [error |-> loop.error, value |-> <<>>, crypto |-> <<>>]
             ELSE LET hashInput == PublicKey_toBytes(programId) \o loop.seedBytes
                                       \o PDA_MARKER_BYTES
                      derivedAddress == addressDecode(sha256(hashInput))
                  IN  IF ~isOffCurveAddress(derivedAddress)
                      THEN [error |-> "Invalid seeds, address must fall off the curve",
                            value |-> <<>>, crypto |-> <<"SHA-256">>]
                      ELSE [error |-> "none", value |-> <<derivedAddress>>,
                            crypto |-> <<"SHA-256">>]

PublicKey_createProgramAddress(seeds, programId) ==
    IF Len(seeds) > MAX_SEEDS
    THEN [error |-> "Max seed count exceeded", value |-> <<>>, crypto |-> <<>>]
    ELSE LET loop == seedLoop(seeds, <<>>)
         IN  IF loop.error # "none"
             THEN [error |-> loop.error, value |-> <<>>, crypto |-> <<>>]
             ELSE LET hashInput == loop.seedBytes \o PublicKey_toBytes(programId)
                                       \o PDA_MARKER_BYTES
                      derivedAddress == addressDecode(sha256(hashInput))
                  IN  IF ~isOffCurveAddress(derivedAddress)
                      THEN [error |-> "Invalid seeds, address must fall off the curve",
                            value |-> <<>>, crypto |-> <<"SHA-256">>]
                      ELSE [error |-> "none", value |-> <<derivedAddress>>,
                            crypto |-> <<"SHA-256">>]

(***************************************************************************)
(* getProgramDerivedAddress of the addresses package, which                *)
(* findProgramAddress calls (section 4 of the specification): one more     *)
(* seed of one byte, the bump, is appended and the derivation is tried     *)
(* with the bumps MaxBump down to 0 until one is off the curve; a seed     *)
(* list the derivation rejects for its count or lengths fails at once.     *)
(***************************************************************************)
MaxBump == 255

createProgramDerivedAddress(seeds, programAddress) ==
    IF Len(seeds) > MAX_SEEDS THEN [error |-> "MalformedInput", value |-> <<>>]
    ELSE IF \E i \in 1..Len(seeds) : Len(seeds[i]) > MAX_SEED_LENGTH
    THEN [error |-> "MalformedInput", value |-> <<>>]
    ELSE LET derivedAddress ==
                 addressDecode(sha256(Concat(seeds) \o PublicKey_toBytes(programAddress)
                                          \o PDA_MARKER_BYTES))
         IN  IF ~isOffCurveAddress(derivedAddress)
             THEN [error |-> "InvalidSeeds", value |-> <<>>]
             ELSE [error |-> "none", value |-> <<derivedAddress>>]

\* one pass of the loop body, for one bump
bumpAttempt(seeds, programAddress, bump) ==
    LET attempt == createProgramDerivedAddress(Append(seeds, <<bump>>), programAddress)
    IN  [error |-> attempt.error,
         value |-> IF attempt.error = "none"
                   THEN <<[address |-> attempt.value[1], bump |-> bump]>> ELSE <<>>,
         tried |-> IF attempt.error = "MalformedInput" THEN 0 ELSE 1]

\* the passes for the bumps hi down to lo, in that order, ended by the first that is not on
\* the curve; the range is walked upper half first
RECURSIVE bumpSearch(_, _, _, _)
bumpSearch(seeds, programAddress, lo, hi) ==
    IF lo = hi THEN bumpAttempt(seeds, programAddress, lo)
    ELSE LET mid == (lo + hi) \div 2
             upper == bumpSearch(seeds, programAddress, mid + 1, hi)
         IN  IF upper.error # "InvalidSeeds" THEN upper
             ELSE LET lower == bumpSearch(seeds, programAddress, lo, mid)
                  IN  [lower EXCEPT !.tried = @ + upper.tried]

getProgramDerivedAddress(programAddress, seeds) ==
    LET search == bumpSearch(seeds, programAddress, 0, MaxBump)
    IN  IF search.error = "InvalidSeeds"
        THEN [search EXCEPT !.error = "NoViableBump"]
        ELSE search

PublicKey_findProgramAddressUnencoded(seeds, programId) ==
    LET processedSeeds == [i \in 1..Len(seeds) |-> seeds[i].value]
        derived == getProgramDerivedAddress(programId, processedSeeds)
    IN  [error |-> derived.error,
         value |-> derived.value,
         crypto |-> Bytes(derived.tried, "SHA-256")]

PublicKey_findProgramAddress(seeds, programId) ==
    LET processedSeeds == [i \in 1..Len(seeds) |-> seedToBytes(seeds[i])]
        derived == getProgramDerivedAddress(programId, processedSeeds)
    IN  [error |-> derived.error,
         value |-> derived.value,
         crypto |-> Bytes(derived.tried, "SHA-256")]

(***************************************************************************)
(* Keypair (keypair.ts).  A KeyPairSigner is its address, its private key  *)
(* and the extractable flag of the private CryptoKey.  The public key of   *)
(* a private key is a one-to-one function of it, and a 64-byte secret key  *)
(* is a private key followed by its public key.                            *)
(***************************************************************************)
SECRET_KEY_LENGTH == 64

SEED_LENGTH == 32

\* the Ed25519 public key of a private key
publicKeyOf(privateKey) == [i \in 1..Len(privateKey) |-> (privateKey[i] + 1) % 256]

KeyPairSigner(privateKey, extractable) ==
    [address |-> [address |-> publicKeyOf(privateKey)],
     privateKey |-> privateKey,
     extractable |-> extractable]

\* createKeyPairSignerFromBytes: imports the key and checks that its halves belong together
createKeyPairSignerFromBytes(bytes, extractable) ==
    LET privateKey == SubSeq(bytes, 1, SEED_LENGTH)
    IN  IF SubSeq(bytes, SEED_LENGTH + 1, Len(bytes)) # publicKeyOf(privateKey)
        THEN [error |-> "Public key must match private key", value |-> <<>>,
              crypto |-> <<"importKey", "sign", "verify">>]
        ELSE [error |-> "none", value |-> <<KeyPairSigner(privateKey, extractable)>>,
              crypto |-> <<"importKey", "sign", "verify">>]

createKeyPairSignerFromPrivateKeyBytes(bytes, extractable) ==
    [error |-> "none", value |-> <<KeyPairSigner(bytes, extractable)>>,
     crypto |-> <<"importKey", "getPublicKey">>]

\* generateKeyPairSigner(): the private key cannot be exported
generateKeyPairSigner(privateKey) ==
    [error |-> "none", value |-> <<KeyPairSigner(privateKey, FALSE)>>,
     crypto |-> <<"generateKey">>]

Keypair_new(signer) == [_signer |-> signer, _secretKey |-> <<>>]

Keypair_publicKey(k) == k._signer.address

Keypair_secretKey(k) ==
    IF k._secretKey # <<>>
    THEN [error |-> "none", value |-> k._secretKey]
    ELSE [error |-> "Cannot access secretKey", value |-> <<>>]

Keypair_generate(privateKey) ==
    LET signer == generateKeyPairSigner(privateKey)
    IN  [error |-> "none", value |-> <<Keypair_new(signer.value[1])>>, crypto |-> signer.crypto]

\* options: <<>> when absent, else <<e>> with e the extractable field, itself <<>> or <<flag>>
optionsExtractable(options) ==
    IF options # <<>> /\ options[1] # <<>> THEN options[1][1] ELSE TRUE

Keypair_fromSecretKey(secretKey, options) ==
    IF Len(secretKey) # SECRET_KEY_LENGTH
    THEN [error |-> "Invalid key pair byte length", value |-> <<>>, crypto |-> <<>>]
    ELSE LET extractable == optionsExtractable(options)
             signer == createKeyPairSignerFromBytes(secretKey, extractable)
         IN  IF signer.error # "none"
             THEN [error |-> signer.error, value |-> <<>>, crypto |-> signer.crypto]
             ELSE [error |-> "none",
                   value |-> <<[Keypair_new(signer.value[1]) EXCEPT
                                   !._secretKey = <<secretKey>>]>>,
                   crypto |-> signer.crypto]

Keypair_fromSeedUnchecked(seed) ==
    LET signer == createKeyPairSignerFromPrivateKeyBytes(seed, TRUE)
        made == Keypair_new(signer.value[1])
    IN  [error |-> "none",
         value |-> <<[made EXCEPT !._secretKey = <<seed \o Keypair_publicKey(made).address>>]>>,
         crypto |-> signer.crypto]

Keypair_fromSeed(seed) ==
    IF Len(seed) # SEED_LENGTH
    THEN [error |-> "Invalid seed length", value |-> <<>>, crypto |-> <<>>]
    ELSE LET signer == createKeyPairSignerFromPrivateKeyBytes(seed, TRUE)
             made == Keypair_new(signer.value[1])
         IN  [error |-> "none",
              value |-> <<[made EXCEPT
                              !._secretKey = <<seed \o Keypair_publicKey(made).address>>]>>,
              crypto |-> signer.crypto]

\* a web3.js Keypair is its 64-byte secretKey; fromLegacyKeypair imports its private half
Keypair_fromLegacyKeypair(legacyKeypair, extractable) ==
    LET signer == KeyPairSigner(SubSeq(legacyKeypair.secretKey, 1, SEED_LENGTH), extractable)
    IN  [error |-> "none",
         value |-> <<[Keypair_new(signer) EXCEPT
                         !._secretKey = IF extractable THEN <<legacyKeypair.secretKey>>
                                        ELSE <<>>]>>,
         crypto |-> <<"importKey">>]

(***************************************************************************)
(* Input universes of the PublicKey and Keypair operations                 *)
(***************************************************************************)
PdaProgramChoices == {4, 5}

SeedListChoices ==
    { <<>>,
      <<BytesSeed(<<1, 2, 3>>)>>,
      <<StringSeed(<<104, 233>>)>>,
      <<BytesSeed(<<1>>), BytesSeed(<<2, 3>>)>>,
      <<BytesSeed(<<1, 2>>), StringSeed(<<3>>)>>,
      <<BytesSeed(Bytes(MAX_SEED_LENGTH, 7))>>,
      <<BytesSeed(Bytes(MAX_SEED_LENGTH + 1, 7))>>,
      <<BytesSeed(<<9>>), StringSeed(Bytes(MAX_SEED_LENGTH - 1, 97) \o <<233>>)>>,
      Bytes(MAX_SEEDS - 1, BytesSeed(<<1>>)),
      Bytes(MAX_SEEDS, BytesSeed(<<1>>)),
      Bytes(MAX_SEEDS + 1, BytesSeed(<<1>>)) }

PrivateKeyChoices == { Bytes(SEED_LENGTH, 1), Bytes(SEED_LENGTH, 255) }

ValidSecretKeys == { privateKey \o publicKeyOf(privateKey) : privateKey \in PrivateKeyChoices }

ByteArrayChoices ==
    { Bytes(n, 1) : n \in {0, SEED_LENGTH \div 2, SEED_LENGTH - 1, SEED_LENGTH, SEED_LENGTH + 1,
                           SECRET_KEY_LENGTH - 1, SECRET_KEY_LENGTH, SECRET_KEY_LENGTH + 1} }
    \cup ValidSecretKeys

\* curves: none or all of the digests on it, and some in between
CurveChoices ==
    { {}, {0}, {CurveModulus - 1}, {0, CurveModulus - 1}, 1..(CurveModulus - 1),
      0..(CurveModulus - 2), 0..(CurveModulus - 1) }

OptionsChoices == { <<>>, <<<<>>>>, <<<<TRUE>>>>, <<<<FALSE>>>> }

\* what a PublicKey or Keypair call returned or threw, and the primitives it invoked
Answered(op, arg, r) ==
    /\ outcome' = Returned(op, arg, r.error, r.value)
    /\ cryptoCalls' = r.crypto

(***************************************************************************)
(* Specification of program derived addresses: a caller derives addresses  *)
(* on a fixed curve.                                                       *)
(***************************************************************************)
InitPda ==
    /\ MessageIdle
    /\ tx = <<>> /\ vtx = <<>> /\ outcome = <<>>
    /\ curve \in CurveChoices
    /\ found = <<>>
    /\ keypair = <<>>
    /\ cryptoCalls = <<>>
    /\ calls = <<>>

\* the seeds a caller passes: any list, or the seeds of the last search with its bump appended
SeedsWithBump ==
    IF found = <<>> THEN {}
    ELSE { [seeds |-> Append(found[1].seeds, BytesSeed(<<found[1].bump>>)),
            programId |-> found[1].programId] }

CreateProgramAddress ==
    \E input \in [seeds : SeedListChoices, programId : PdaProgramChoices] \cup SeedsWithBump :
        /\ Answered("createProgramAddress", input,
                    PublicKey_createProgramAddress(input.seeds, input.programId))
        /\ UNCHANGED <<msgVars, tx, vtx, curve, found, keypair, calls>>

FindProgramAddress ==
    \E input \in [seeds : SeedListChoices, programId : PdaProgramChoices] :
        LET r == PublicKey_findProgramAddress(input.seeds, input.programId)
        IN  /\ Answered("findProgramAddress", input, r)
            /\ found' = IF r.error = "none"
                        THEN <<[seeds |-> input.seeds, programId |-> input.programId,
                                address |-> r.value[1].address, bump |-> r.value[1].bump]>>
                        ELSE <<>>
            /\ UNCHANGED <<msgVars, tx, vtx, curve, keypair, calls>>

NextPda ==
    \/ CreateProgramAddress
    \/ FindProgramAddress

SpecPda == InitPda /\ [][NextPda]_vars

\* the last findProgramAddress returned an address, and this is what it was asked and answered
FoundInput == [seeds |-> found[1].seeds, programId |-> found[1].programId]

FoundValue == [address |-> found[1].address, bump |-> found[1].bump]

(***************************************************************************)
(* C22: what findProgramAddress returns for seeds and a program is an      *)
(* address off the curve and a bump from 0 to 255, and                     *)
(* createProgramAddress called with the same seeds followed by the one     *)
(* byte of the bump, and the same program, returns that address.           *)
(***************************************************************************)
C22_FoundAddressIsValidPda ==
    found # <<>> =>
        /\ isOffCurveAddress(found[1].address)
        /\ found[1].bump \in 0..255
        /\ (Called("createProgramAddress") /\ outcome[1].arg \in SeedsWithBump) =>
              /\ outcome[1].error = "none"
              /\ outcome[1].value = <<found[1].address>>

\* an address found below the first bump, from several seeds, was derived again
C22_Witness ==
    /\ found # <<>>
    /\ found[1].bump < 255
    /\ Len(found[1].seeds) >= 2
    /\ Called("createProgramAddress") /\ outcome[1].arg \in SeedsWithBump
    /\ outcome[1].value = <<found[1].address>>

\* the derivation of these seeds with this bump appended falls off the curve
DerivesOffCurve(input, bump) ==
    PublicKey_createProgramAddress(Append(input.seeds, BytesSeed(<<bump>>)),
                                   input.programId).error = "none"

DerivesOnCurve(input, bump) ==
    PublicKey_createProgramAddress(Append(input.seeds, BytesSeed(<<bump>>)),
                                   input.programId).error
        = "Invalid seeds, address must fall off the curve"

InitKey ==
    /\ MessageIdle
    /\ tx = <<>> /\ vtx = <<>> /\ outcome = <<>>
    /\ curve \in { {}, 0..(CurveModulus - 1) }
    /\ found = <<>>
    /\ keypair = <<>>
    /\ cryptoCalls = <<>>
    /\ calls = <<>>

\* a factory returned a Keypair, or threw and left the caller with the Keypair it had
Made(op, arg, r) ==
    /\ Answered(op, arg, r)
    /\ keypair' = IF r.error = "none" THEN r.value ELSE keypair
    /\ UNCHANGED <<msgVars, tx, vtx, curve, found, calls>>

NewPublicKey ==
    \E bytes \in ByteArrayChoices :
        /\ Answered("new PublicKey", bytes, PublicKey_new(bytes))
        /\ UNCHANGED <<msgVars, tx, vtx, curve, found, keypair, calls>>

Generate ==
    \E privateKey \in PrivateKeyChoices :
        Made("generate", <<>>, Keypair_generate(privateKey))

FromSecretKey ==
    \E secretKey \in ByteArrayChoices, options \in OptionsChoices :
        Made("fromSecretKey", [secretKey |-> secretKey, options |-> options],
             Keypair_fromSecretKey(secretKey, options))

FromSeed ==
    \E seed \in ByteArrayChoices \cup PrivateKeyChoices :
        Made("fromSeed", seed, Keypair_fromSeed(seed))

FromLegacyKeypair ==
    \E secretKey \in ValidSecretKeys, extractable \in BOOLEAN :
        Made("fromLegacyKeypair", [secretKey |-> secretKey, extractable |-> extractable],
             Keypair_fromLegacyKeypair([secretKey |-> secretKey], extractable))

SecretKey ==
    /\ keypair # <<>>
    /\ outcome' = Returned("secretKey", <<>>, Keypair_secretKey(keypair[1]).error,
                           Keypair_secretKey(keypair[1]).value)
    /\ cryptoCalls' = <<>>
    /\ UNCHANGED <<msgVars, tx, vtx, curve, found, keypair, calls>>

NextKey ==
    \/ NewPublicKey
    \/ CreateProgramAddress
    \/ Generate
    \/ FromSecretKey
    \/ FromSeed
    \/ FromLegacyKeypair
    \/ SecretKey

SpecKey == InitKey /\ [][NextKey]_vars

\* the secret key of a keypair: its private key followed by its public key
SecretKeyOf(k) == k._signer.privateKey \o Keypair_publicKey(k).address

(***************************************************************************)
(* C24: the secretKey getter throws for every keypair created              *)
(* non-extractable, whatever factory created it, and for a keypair created *)
(* extractable it returns the 64 bytes of its secret key.                  *)
(***************************************************************************)
C24_SecretKeyOnlyIfExtractable ==
    Called("secretKey") =>
        IF keypair[1]._signer.extractable
        THEN /\ outcome[1].error = "none"
             /\ outcome[1].value = <<SecretKeyOf(keypair[1])>>
             /\ Len(outcome[1].value[1]) = 64
        ELSE outcome[1].error = "Cannot access secretKey"

LengthErrors ==
    {"Invalid public key input", "Invalid key pair byte length", "Invalid seed length",
     "Max seed count exceeded", "Max seed length exceeded"}

\* the input of the last call breaks the length or count limit of the operation called
BreaksLimit ==
    \/ Called("new PublicKey") /\ Len(outcome[1].arg) # 32
    \/ Called("fromSecretKey") /\ Len(outcome[1].arg.secretKey) # 64
    \/ Called("fromSeed") /\ Len(outcome[1].arg) # 32
    \/ /\ Called("createProgramAddress")
       /\ \/ Len(outcome[1].arg.seeds) > 16
          \/ \E i \in 1..Len(outcome[1].arg.seeds) :
                Len(seedToBytes(outcome[1].arg.seeds[i])) > 32

(***************************************************************************)
(* C25: a PublicKey byte array not of 32 bytes, a fromSecretKey input not  *)
(* of 64 bytes, a fromSeed input not of 32 bytes, and more than 16 seeds   *)
(* or a seed of more than 32 bytes in createProgramAddress are rejected    *)
(* with a length error, without a result and before any cryptographic      *)
(* primitive is invoked; an input within the limits, 16 seeds and 32-byte  *)
(* seeds included, is not rejected for its length.                         *)
(***************************************************************************)
C25_LimitsCheckedFirst ==
    (outcome # <<>> /\ outcome[1].op \in {"new PublicKey", "fromSecretKey", "fromSeed",
                                          "createProgramAddress"}) =>
        IF BreaksLimit
        THEN /\ outcome[1].error \in LengthErrors
             /\ outcome[1].value = <<>>
             /\ cryptoCalls = <<>>
        ELSE outcome[1].error \notin LengthErrors

\* sixteen seeds, one more than findProgramAddress could take, were hashed
C25_Witness ==
    /\ Called("createProgramAddress")
    /\ Len(outcome[1].arg.seeds) = 16
    /\ outcome[1].error = "none"
    /\ cryptoCalls # <<>>

(***************************************************************************)
(* Specification of signing calls in flight.  partialSign and              *)
(* VersionedTransaction.sign are async functions: a call runs without      *)
(* interruption from its start to its first await and from one await to    *)
(* the next, and any other call may run while it is suspended.  A call is  *)
(* a record: where it stands (pc), the object it signs (target), the       *)
(* signers not yet processed (the first is the one being processed), the   *)
(* message bytes it serialized at its start, and the slot index it found   *)
(* for the signer being processed.  during is the pc the other call had    *)
(* when this call started.                                                 *)
(***************************************************************************)
CallIds == {1, 2}

IdleCall ==
    [pc |-> "idle", target |-> "none", kind |-> "none", all |-> <<>>, signers |-> <<>>,
     messageBytes |-> <<>>, sigIdx |-> -1, during |-> "none"]

OtherCall(c) == 3 - c

\* the head of the loop of partialSign: the slot of the next signer, up to the await
loopHead(call, signatures) ==
    IF call.signers = <<>> THEN [call EXCEPT !.pc = "done", !.sigIdx = -1]
    ELSE LET sigIdx == findIndex(signatures, Head(call.signers))
         IN  IF sigIdx = -1 THEN [call EXCEPT !.pc = "threw", !.sigIdx = -1]
             ELSE [call EXCEPT !.pc = IF call.kind = "Signer" THEN "awaitKeypair"
                                                             ELSE "awaitSignature",
                               !.sigIdx = sigIdx]

\* the head of the loop of VersionedTransaction.sign
versionedLoopHead(call, v) ==
    IF call.signers = <<>> THEN [call EXCEPT !.pc = "done", !.sigIdx = -1]
    ELSE LET sigIdx == keyIndex(staticAccountKeysOf(v.message), Head(call.signers))
         IN  IF sigIdx = -1 \/ sigIdx >= Len(v.signatures)
             THEN [call EXCEPT !.pc = "threw", !.sigIdx = -1]
             ELSE [call EXCEPT !.pc = IF call.kind = "Signer" THEN "awaitKeypair"
                                                             ELSE "awaitSignature",
                               !.sigIdx = sigIdx]

\* this.signatures[sigIdx].signature = Buffer.from(signature)
writeFirstSlot(signatures, sigIdx, signature) ==
    [signatures EXCEPT ![1].signature = <<signature>>]

writeSlot(signatures, sigIdx, signature) ==
    [signatures EXCEPT ![sigIdx + 1].signature = <<signature>>]

\* this.signatures[sigIdx] = signature
versionedWriteSlot(signatures, sigIdx, signature) ==
    [signatures EXCEPT ![sigIdx + 1] = signature]

RequiresBoth == Ix(4, <<Meta(1, TRUE, FALSE), Meta(2, TRUE, FALSE)>>, <<>>)

\* transactions a caller can hold: new, with an instruction, signed before the instruction
\* was added, and without a recent blockhash
AsyncTransactionChoices ==
    LET new == Transaction_new(<<1>>, <<77>>)
    IN  { new,
          Transaction_add(new, <<RequiresBoth>>),
          Transaction_add(Transaction_partialSign(new, <<1>>).tx, <<RequiresBoth>>),
          Transaction_add(Transaction_new(<<1>>, <<>>), <<RequiresBoth>>) }

InitAsync ==
    /\ MessageIdle
    /\ tx \in { <<t>> : t \in AsyncTransactionChoices }
    /\ vtx \in { <<VersionedTransaction_new(Message_compile(1, 77, ixs))>> :
                    ixs \in { <<>>, <<RequiresBoth>> } }
    /\ outcome = <<>>
    /\ curve = {}
    /\ found = <<>>
    /\ keypair = <<>>
    /\ cryptoCalls = <<>>
    /\ calls = [c \in CallIds |-> IdleCall]

Started(c, target, kind, signers, messageBytes) ==
    [pc |-> "started", target |-> target, kind |-> kind, all |-> signers, signers |-> signers,
     messageBytes |-> messageBytes, sigIdx |-> -1, during |-> calls[OtherCall(c)].pc]

\* partialSign(...signers) from its call to its first await, throw or return
StartPartialSign(c) ==
    /\ calls[c].pc = "idle"
    /\ \E signers \in SignerLists, kind \in {"Keypair", "Signer"} :
          IF Transaction_compileError(tx[1]) # "none"
          THEN /\ calls' = [calls EXCEPT
                              ![c] = [Started(c, "Transaction", kind, signers, <<>>)
                                         EXCEPT !.pc = "threw"]]
               /\ tx' = tx
          ELSE LET m == Transaction_compileMessage(tx[1])
                   signatures == initSignatures(tx[1], m)
               IN  /\ tx' = <<[tx[1] EXCEPT !.signatures = signatures]>>
                   /\ calls' = [calls EXCEPT
                                  ![c] = loopHead(Started(c, "Transaction", kind, signers,
                                                          Message_serialize(m)),
                                                  signatures)]
    /\ UNCHANGED <<msgVars, vtx, outcome, keyVars>>

\* VersionedTransaction.sign(signers) from its call to its first await, throw or return
StartVersionedSign(c) ==
    /\ calls[c].pc = "idle"
    /\ \E signers \in SignerLists, kind \in {"Keypair", "Signer"} :
          calls' = [calls EXCEPT
                      ![c] = versionedLoopHead(
                                 Started(c, "VersionedTransaction", kind, signers,
                                         VersionedMessage_serialize(vtx[1].message)),
                                 vtx[1])]
    /\ UNCHANGED <<msgVars, tx, vtx, outcome, keyVars>>

\* await Keypair.fromSecretKey(signer.secretKey) resolves; the call goes on to await signBytes
KeypairReady(c) ==
    /\ calls[c].pc = "awaitKeypair"
    /\ calls' = [calls EXCEPT ![c].pc = "awaitSignature"]
    /\ UNCHANGED <<msgVars, tx, vtx, outcome, keyVars>>

\* await signBytes(...) resolves: the slot is written and the loop goes to the next signer
SignatureReady(c) ==
    /\ calls[c].pc = "awaitSignature"
    /\ LET call == calls[c]
           signature == signBytes(Head(call.signers), call.messageBytes)
           next == [call EXCEPT !.signers = Tail(call.signers)]
       IN  IF call.target = "Transaction"
           THEN LET signatures == writeSlot(tx[1].signatures, call.sigIdx, signature)
                IN  /\ tx' = <<[tx[1] EXCEPT !.signatures = signatures]>>
                    /\ calls' = [calls EXCEPT ![c] = loopHead(next, signatures)]
                    /\ vtx' = vtx
           ELSE LET v == [vtx[1] EXCEPT
                             !.signatures = versionedWriteSlot(@, call.sigIdx, signature)]
                IN  /\ vtx' = <<v>>
                    /\ calls' = [calls EXCEPT ![c] = versionedLoopHead(next, v)]
                    /\ tx' = tx
    /\ UNCHANGED <<msgVars, outcome, keyVars>>

NextAsync ==
    \E c \in CallIds :
        \/ StartPartialSign(c)
        \/ StartVersionedSign(c)
        \/ KeypairReady(c)
        \/ SignatureReady(c)

SpecAsync == InitAsync /\ [][NextAsync]_vars

\* both calls were made on this kind of transaction and both have returned
BothReturned(target) ==
    \A c \in CallIds : calls[c].pc = "done" /\ calls[c].target = target

\* what the slot of key k holds in the VersionedTransaction
VersionedStoredFor(k) ==
    vtx[1].signatures[keyIndex(staticAccountKeysOf(vtx[1].message), k) + 1]

\* the call that is about to write slot i of this kind of transaction, if the step is its write
Writes(c, target, i) ==
    /\ calls[c].pc = "awaitSignature"
    /\ calls[c].target = target
    /\ calls[c].sigIdx + 1 = i
    /\ calls'[c] # calls[c]

(***************************************************************************)
(* C29: when two partialSign calls, or two VersionedTransaction.sign       *)
(* calls, are in flight on one transaction and their awaits resolve in any *)
(* order, every signer of both calls ends with its signature of the        *)
(* message in its slot, and every step leaves the slot array with the same *)
(* keys in the same order and changes at most the slot of the call whose   *)
(* await resolved, to that call's signature.                               *)
(***************************************************************************)
C29_NoLostSignature ==
    /\ [](/\ BothReturned("Transaction") =>
                \A c \in CallIds : \A i \in 1..Len(calls[c].all) :
                    StoredFor(calls[c].all[i]) = <<signBytes(calls[c].all[i], TxMessageBytes)>>
          /\ BothReturned("VersionedTransaction") =>
                \A c \in CallIds : \A i \in 1..Len(calls[c].all) :
                    VersionedStoredFor(calls[c].all[i])
                        = signBytes(calls[c].all[i], VtxMessageBytes))
    /\ [][/\ tx[1].signatures # <<>> =>
                /\ KeysOf(tx'[1].signatures) = KeysOf(tx[1].signatures)
                /\ \A i \in 1..Len(tx[1].signatures) :
                      tx'[1].signatures[i] # tx[1].signatures[i] =>
                          \E c \in CallIds :
                              /\ Writes(c, "Transaction", i)
                              /\ tx'[1].signatures[i].signature
                                    = <<signBytes(Head(calls[c].signers), TxMessageBytes)>>
          /\ Len(vtx'[1].signatures) = Len(vtx[1].signatures)
          /\ \A i \in 1..Len(vtx[1].signatures) :
                vtx'[1].signatures[i] # vtx[1].signatures[i] =>
                    \E c \in CallIds :
                        /\ Writes(c, "VersionedTransaction", i)
                        /\ vtx'[1].signatures[i]
                              = signBytes(Head(calls[c].signers), VtxMessageBytes)]_vars

\* the second call started while the first was suspended, for another signer; both returned
C29_Witness ==
    /\ BothReturned("Transaction")
    /\ calls[1].all = <<1>> /\ calls[2].all = <<2>>
    /\ calls[2].during = "awaitSignature"
    /\ SlotValid(1) /\ SlotValid(2)

====
